---- MODULE Spec2Model ----
(***************************************************************************)
(* A model of simple-ftp (mftp): the per-connection server child of        *)
(* src/src/mftpserve.c, the client of src/src/mftp.c, the control          *)
(* connection between them and the data connection the D handshake sets    *)
(* up.                                                                     *)
(*                                                                         *)
(* Bytes are one-character strings; a control stream is a sequence of      *)
(* bytes in which LF ends a line.  Free-form message texts (an error       *)
(* message, strerror(errno)) are kept as one opaque token each.  A socket  *)
(* descriptor is named by the port of the listener its connection was made *)
(* to; -1 is "no descriptor", as in the source.                            *)
(*                                                                         *)
(* A write on the control connection succeeds while the peer holds its end *)
(* open; once the peer has closed it the write either still succeeds or    *)
(* fails (dprintf < 0).                                                    *)
(***************************************************************************)
EXTENDS Integers, Sequences, FiniteSets, TLC

(* ----------------------------- bounds -------------------------------- *)

\* control lines an arbitrary peer sends in one session
MaxLines == 3
\* connections the server parent accepts, each served by a child it forks
MaxConn == 3
\* bytes the data connection buffers in each direction
DataCap == 1
\* bytes an arbitrary peer writes on data connections in one session
MaxPeerData == 2
\* user commands typed at the client's prompt in one session
MaxCmds == 2
\* the longest stream read_line is called on, and its largest buffer
MaxStream == 4
MaxBuf == 3
\* the most bytes write_buf is asked to write, and the most a single
\* write(2) takes
MaxWrite == 3
MaxTake == 2
\* the longest file send_file copies, and its largest buffer
MaxFile == 3
MaxChunk == 3
\* the longest argument of a command sent through the wire codec
MaxArg == 2
\* turns of the client's prompt loop followed after standard input ended
MaxEofs == 2

(* ------------------------- program constants ------------------------- *)

EXIT_SUCCESS == 0
EXIT_FAILURE == 1
BUFSIZ == 8192
CFG_MAXLINE == BUFSIZ
NoSock == -1
\* the first port the kernel hands out for bind(port 0); later ones follow
FirstPort == 41
\* descriptors of the client: standard output, and the socket connect_to
\* returns first (0, 1 and 2 being taken)
STDOUT_FILENO == 1
CtlSock == 3

LF == "\n"
RSP_ACK == "A"
RSP_ERR == "E"

\* enum cmd_type
CMD_EXIT == "CMD_EXIT"
CMD_CD == "CMD_CD"
CMD_RCD == "CMD_RCD"
CMD_LS == "CMD_LS"
CMD_RLS == "CMD_RLS"
CMD_GET == "CMD_GET"
CMD_SHOW == "CMD_SHOW"
CMD_PUT == "CMD_PUT"
CMD_DATA == "CMD_DATA"
CMD_INVALID == "CMD_INVALID"

\* struct cmd_info info_table[]; ctl is "" where the initializer omits it
info_table ==
  [k \in {CMD_EXIT, CMD_CD, CMD_RCD, CMD_LS, CMD_RLS, CMD_GET, CMD_SHOW,
          CMD_PUT, CMD_DATA} |->
    CASE k = CMD_EXIT -> [name |-> "exit", has_arg |-> FALSE, is_remote |-> TRUE,  needs_data |-> FALSE, ctl |-> "Q"]
      [] k = CMD_CD   -> [name |-> "cd",   has_arg |-> TRUE,  is_remote |-> FALSE, needs_data |-> FALSE, ctl |-> ""]
      [] k = CMD_RCD  -> [name |-> "rcd",  has_arg |-> TRUE,  is_remote |-> TRUE,  needs_data |-> FALSE, ctl |-> "C"]
      [] k = CMD_LS   -> [name |-> "ls",   has_arg |-> FALSE, is_remote |-> FALSE, needs_data |-> FALSE, ctl |-> ""]
      [] k = CMD_RLS  -> [name |-> "rls",  has_arg |-> FALSE, is_remote |-> TRUE,  needs_data |-> TRUE,  ctl |-> "L"]
      [] k = CMD_GET  -> [name |-> "get",  has_arg |-> TRUE,  is_remote |-> TRUE,  needs_data |-> TRUE,  ctl |-> "G"]
      [] k = CMD_SHOW -> [name |-> "show", has_arg |-> TRUE,  is_remote |-> TRUE,  needs_data |-> TRUE,  ctl |-> "G"]
      [] k = CMD_PUT  -> [name |-> "put",  has_arg |-> TRUE,  is_remote |-> TRUE,  needs_data |-> TRUE,  ctl |-> "P"]
      [] k = CMD_DATA -> [name |-> "",     has_arg |-> FALSE, is_remote |-> TRUE,  needs_data |-> FALSE, ctl |-> "D"]]

cmd_is_remote(cmd) ==
  IF cmd = CMD_INVALID THEN FALSE ELSE info_table[cmd].is_remote

\* a table in which RCD is marked as needing a data connection
cmd_needs_data_Rcd(cmd) ==
  cmd_is_remote(cmd) /\ cmd \notin {CMD_EXIT, CMD_DATA}

cmd_needs_data(cmd) ==
  IF ~cmd_is_remote(cmd) THEN FALSE ELSE info_table[cmd].needs_data

\* -1 (no control character) is the token "-1": no byte of a line equals it
cmd_get_ctl(cmd) ==
  IF ~cmd_is_remote(cmd) THEN "-1" ELSE info_table[cmd].ctl

\* a lookup that falls back to CMD_EXIT instead of CMD_INVALID
cmd_get_type_ExitDefault(ctl) ==
  CASE ctl = "C" -> CMD_RCD
    [] ctl = "L" -> CMD_RLS
    [] ctl = "G" -> CMD_GET
    [] ctl = "P" -> CMD_PUT
    [] ctl = "D" -> CMD_DATA
    [] OTHER -> CMD_EXIT

\* a lookup that does not know the D code
cmd_get_type_NoData(ctl) ==
  CASE ctl = "Q" -> CMD_EXIT
    [] ctl = "C" -> CMD_RCD
    [] ctl = "L" -> CMD_RLS
    [] ctl = "G" -> CMD_GET
    [] ctl = "P" -> CMD_PUT
    [] OTHER -> CMD_INVALID

cmd_get_type(ctl) ==
  IF ctl = cmd_get_ctl(CMD_EXIT) THEN CMD_EXIT
  ELSE IF ctl = cmd_get_ctl(CMD_RCD) THEN CMD_RCD
  ELSE IF ctl = cmd_get_ctl(CMD_RLS) THEN CMD_RLS
  ELSE IF ctl = cmd_get_ctl(CMD_GET) THEN CMD_GET
  ELSE IF ctl = cmd_get_ctl(CMD_SHOW) THEN CMD_SHOW
  ELSE IF ctl = cmd_get_ctl(CMD_PUT) THEN CMD_PUT
  ELSE IF ctl = cmd_get_ctl(CMD_DATA) THEN CMD_DATA
  ELSE CMD_INVALID

(* ---------------------------- cmd_parse ------------------------------ *)

\* the characters of a command name; a line of text is a sequence of
\* one-character strings, its terminating NUL the end of the sequence
NameChars(name) ==
  CASE name = "exit" -> <<"e", "x", "i", "t">>
    [] name = "cd"   -> <<"c", "d">>
    [] name = "rcd"  -> <<"r", "c", "d">>
    [] name = "ls"   -> <<"l", "s">>
    [] name = "rls"  -> <<"r", "l", "s">>
    [] name = "get"  -> <<"g", "e", "t">>
    [] name = "show" -> <<"s", "h", "o", "w">>
    [] name = "put"  -> <<"p", "u", "t">>
    [] OTHER -> <<>>

\* cmd_get_name: the name of cmd; <<>> stands for NULL
cmd_get_name(cmd) ==
  IF cmd = CMD_INVALID THEN <<>> ELSE NameChars(info_table[cmd].name)

\* isspace in the C locale; "VT" stands for the vertical tab
isspace(c) == c \in {" ", "\t", "\n", "VT", "\f", "\r"}

\* word_length: count_chars(str, is_not_space)
RECURSIVE word_length(_)
word_length(str) ==
  IF str = <<>> \/ isspace(Head(str)) THEN 0 ELSE 1 + word_length(Tail(str))

\* space_length: count_chars(str, isspace)
RECURSIVE space_length(_)
space_length(str) ==
  IF str = <<>> \/ ~isspace(Head(str)) THEN 0 ELSE 1 + space_length(Tail(str))

\* str + n
Skip(str, n) == SubSeq(str, n + 1, Len(str))

\* a comparison that accepts every line the name is a prefix of
msg_is_cmd_Prefix(msg, cmd) ==
  LET cmd_name == cmd_get_name(cmd)
  IN /\ cmd_name # <<>>
     /\ Len(cmd_name) <= Len(msg)
     /\ SubSeq(msg, 1, Len(cmd_name)) = cmd_name

\* msg_is_cmd: the first word of msg is the name of cmd
msg_is_cmd(msg, cmd) ==
  LET cmd_name == cmd_get_name(cmd)
  IN /\ cmd_name # <<>>
     /\ Len(cmd_name) = word_length(msg)
     /\ SubSeq(msg, 1, Len(cmd_name)) = cmd_name

\* the chain of msg_is_cmd tests of cmd_parse
ParsedType(msg) ==
  IF msg_is_cmd(msg, CMD_EXIT) THEN CMD_EXIT
  ELSE IF msg_is_cmd(msg, CMD_CD) THEN CMD_CD
  ELSE IF msg_is_cmd(msg, CMD_RCD) THEN CMD_RCD
  ELSE IF msg_is_cmd(msg, CMD_LS) THEN CMD_LS
  ELSE IF msg_is_cmd(msg, CMD_RLS) THEN CMD_RLS
  ELSE IF msg_is_cmd(msg, CMD_GET) THEN CMD_GET
  ELSE IF msg_is_cmd(msg, CMD_SHOW) THEN CMD_SHOW
  ELSE IF msg_is_cmd(msg, CMD_PUT) THEN CMD_PUT
  ELSE CMD_INVALID

\* a check that lets a command through whatever its argument
ArgMismatch_Never(type, needs_arg, has_arg) == FALSE

\* cmd_parse's final test
ArgMismatch(type, needs_arg, has_arg) ==
  type # CMD_INVALID /\ needs_arg # has_arg

\* cmd_parse(msg); an arg of <<>> stands for NULL.  For a line that names no
\* command, info_table[CMD_INVALID] is read past the end of the table: beyond
\* is what that read yields.
cmd_parse(msg, beyond) ==
  LET arg0 == Skip(msg, word_length(msg))
      arg == Skip(arg0, space_length(arg0))
      type == ParsedType(msg)
      has_arg == arg # <<>>
      needs_arg == IF type = CMD_INVALID THEN beyond ELSE info_table[type].has_arg
  IN [type |-> IF ArgMismatch(type, needs_arg, has_arg) THEN CMD_INVALID ELSE type,
      arg |-> arg]

(* ------------------------------ bytes -------------------------------- *)

Digit == <<"0", "1", "2", "3", "4", "5", "6", "7", "8", "9">>

\* printf("%u"): the decimal digits of n
RECURSIVE Dec(_)
Dec(n) ==
  IF n < 10 THEN <<Digit[n + 1]>>
  ELSE Dec(n \div 10) \o <<Digit[(n % 10) + 1]>>

DigitVal(c) == (CHOOSE i \in 1..10 : Digit[i] = c) - 1
IsDigit(c) == \E i \in 1..10 : Digit[i] = c

\* getaddrinfo's reading of a numeric service string; -1 when it is none
RECURSIVE ParsePort(_, _)
ParsePort(str, acc) ==
  IF str = <<>> THEN acc
  ELSE IF ~IsDigit(Head(str)) THEN -1
  ELSE ParsePort(Tail(str), acc * 10 + DigitVal(Head(str)))

is_newline(c) == c = LF

\* read_until on the bytes `stream` a descriptor can deliver now, `eof` telling
\* whether the peer has closed: st is "end" (terminator read and replaced by
\* NUL), "full" (buf_size - 1 bytes stored), "eof" (read returned 0) or "block"
\* (read would block); buf are the bytes stored, Len(buf) the value returned.
RECURSIVE read_until(_, _, _, _, _)
read_until(stream, eof, remaining, lineMode, buf) ==
  IF remaining = 0 THEN [st |-> "full", buf |-> buf, rest |-> stream]
  ELSE IF stream = <<>>
    THEN [st |-> IF eof THEN "eof" ELSE "block", buf |-> buf, rest |-> stream]
  ELSE IF lineMode /\ is_newline(Head(stream))
    THEN [st |-> "end", buf |-> buf, rest |-> Tail(stream)]
  ELSE read_until(Tail(stream), eof, remaining - 1, lineMode,
                  buf \o <<Head(stream)>>)

read_line(stream, eof, buf_size) ==
  read_until(stream, eof, buf_size - 1, TRUE, <<>>)

\* basename_of: the part of path after its last slash
RECURSIVE basename_of(_)
basename_of(path) ==
  IF \E i \in 1..Len(path) : path[i] = "/"
  THEN basename_of(Tail(path))
  ELSE path

(* ------------------------------ state -------------------------------- *)

VARIABLES
  srv,    \* the server child: handle_connection's locals and its descriptors
  ctl,    \* the control connection: bytes in flight, and the peer's end
  dat,    \* the data connection made to the current data listener
  cli,    \* the mftp client process (src/src/mftp.c)
  peer,   \* an arbitrary peer: what it has sent so far
  call,   \* one call of a library function: its name, argument and progress
  proc    \* one process and the children it has forked

vars == <<srv, ctl, dat, cli, peer, call, proc>>

\* names in the server's directories; "s" in "top" is the directory "sub"
FileF == <<"f">>
FileG == <<"g">>
DirS == <<"s">>
ContentF == <<"x", "y">>

Names == {FileF, FileG}
Gone == [ex |-> FALSE, data |-> <<>>]

\* the server's files, by directory and name: "top" holds f, "sub" is empty.
\* Only the names of Names can exist as regular files.
FsInit ==
  [dir \in {"top", "sub"} |->
    [n \in Names |->
      IF dir = "top" /\ n = FileF THEN [ex |-> TRUE, data |-> ContentF]
      ELSE Gone]]

NoData == [st |-> "none", id |-> NoSock, up |-> <<>>, down |-> <<>>,
           cli_open |-> FALSE, srv_open |-> FALSE]

NoXfer == [cmd |-> CMD_INVALID, src |-> <<>>, dest |-> <<>>, buf |-> <<>>]

\* handle_connection on entry: data_sock = -1, nothing read.  open holds the
\* data descriptors the child has open, lsn its listening sockets, files the
\* files it has open (path and mode).  last records
\* the control line being processed (msg, and st, how read_line ended), the
\* data handle and the files when it was read, the response lines written for
\* it so far, and whether its accept has returned a connection.
SrvInit ==
  [pc |-> "read", data_sock |-> NoSock, ctl_open |-> TRUE,
   open |-> {}, lsn |-> {}, tmp |-> NoSock, nlsn |-> 0, files |-> {},
   cwd |-> "top", fs |-> FsInit,
   xfer |-> NoXfer, errno |-> "0", status |-> NoSock,
   nread |-> 0, nrsp |-> 0,
   last |-> [msg |-> <<>>, st |-> "none", data0 |-> NoSock, rsp |-> <<>>,
             fs0 |-> FsInit, accepted |-> FALSE]]

\* tags: for each response line still in s2c, the number of the command line
\* the server was processing when it wrote it
CtlInit == [c2s |-> <<>>, s2c |-> <<>>, cli_open |-> TRUE, tags |-> <<>>]

(* ------------------- the server child: mftpserve.c ------------------- *)

\* A machine m = [s, c, d] holds the server record and the two connections
\* while one handler runs; each handler maps a machine to a machine.

Machine == [s |-> srv, c |-> ctl, d |-> dat]

\* dprintf(sock, ...) of one line on the control connection; ok says whether
\* the write succeeds
WriteCtl(m, line, ok) ==
  IF ok
  THEN [m EXCEPT !.c.s2c = @ \o line \o <<LF>>,
                 !.c.tags = Append(@, m.s.nread),
                 !.s.nrsp = @ + 1,
                 !.s.last.rsp = Append(@, line)]
  ELSE [m EXCEPT !.s.errno = "EPIPE"]

\* send_ack: "A\n", or "A<port>\n" when a port is given
send_ack(m, port, ok) ==
  WriteCtl(m, IF port # NoSock THEN <<RSP_ACK>> \o Dec(port) ELSE <<RSP_ACK>>, ok)

send_err(m, msg, ok) == WriteCtl(m, <<RSP_ERR>> \o msg, ok)

StrError(errno) == <<errno>>

\* respond: an acknowledgement, or an error carrying strerror(errno)
respond(m, success, ok) ==
  IF success THEN send_ack(m, NoSock, ok)
  ELSE send_err(m, StrError(m.s.errno), ok)

\* close(fd) of a data descriptor of the child; close(-1) changes nothing
CloseDataFd(m, fd) ==
  [m EXCEPT !.s.open = @ \ {fd},
            !.d.srv_open = IF m.d.id = fd /\ fd # NoSock THEN FALSE ELSE @]

\* the process ends: every descriptor it holds is closed
ProcessEnd(m, pc, status) ==
  [m EXCEPT !.s.pc = pc, !.s.status = status, !.s.ctl_open = FALSE,
            !.s.open = {}, !.s.lsn = {}, !.s.tmp = NoSock, !.s.files = {},
            !.d.srv_open = FALSE]

MSG_UNRECOGNIZED == <<"Unrecognized command">>
MSG_NO_DATA == <<"Data connection not established">>
MSG_NO_SOCKET == <<"Failed to create data socket">>

\* is_reg and open(O_RDONLY) of path in the server's working directory:
\* "" when it names a regular file, else the errno
OpenForRead(s, path) ==
  IF path \in Names /\ s.fs[s.cwd][path].ex THEN ""
  ELSE IF path = DirS /\ s.cwd = "top" THEN "ENOTSUP"
  ELSE "ENOENT"

\* open(dest, O_WRONLY | O_CREAT | O_EXCL, 0666): "" when the file is created
OpenExcl(s, dest) ==
  IF dest \in Names
  THEN IF s.fs[s.cwd][dest].ex THEN "EEXIST" ELSE ""
  ELSE IF dest = DirS /\ s.cwd = "top" THEN "EEXIST"
  ELSE "ENOENT"

\* ls -l of the working directory: one line per file
Listing(s) ==
  (IF s.fs[s.cwd][FileF].ex THEN FileF \o <<LF>> ELSE <<>>)
  \o (IF s.fs[s.cwd][FileG].ex THEN FileG \o <<LF>> ELSE <<>>)

\* cmd_chdir: chdir(path) from the working directory
cmd_chdir(m, path) ==
  IF m.s.cwd = "top" /\ path = DirS
  THEN [m EXCEPT !.s.cwd = "sub"]
  ELSE [m EXCEPT !.s.errno = "ENOENT"]

ChdirOk(s, path) == s.cwd = "top" /\ path = DirS

\* an EXIT that acknowledges and returns to the loop
server_exit_Return(m, e) == send_ack(m, NoSock, e.w1)

\* server_exit: acknowledge, close the control connection, exit(status)
server_exit(m, e) ==
  ProcessEnd(send_ack(m, NoSock, e.w1), "exited",
             IF e.w1 THEN EXIT_SUCCESS ELSE EXIT_FAILURE)

\* the CMD_DATA case with its assertion compiled out
AssertNoData_Off(data_sock) == TRUE

\* assert(*data_sock < 0) in the CMD_DATA case
AssertNoData(data_sock) == data_sock < 0

\* an init_data that sends the port before its listener exists
init_data_AckFirst(m, e) ==
  LET port == FirstPort + m.s.nlsn
      m2 == send_ack([m EXCEPT !.s.nlsn = @ + 1], port, e.w1)
  IN IF ~e.w1 THEN send_err(m2, MSG_NO_SOCKET, e.w2)
     ELSE [m2 EXCEPT !.s.pc = "accept", !.s.tmp = port]

\* init_data up to its accept: listen_on(0), getsockname, send_ack with the
\* port.  The child then blocks in accept (pc "accept", tmp the listener);
\* on a failure init_data returns -1 and handle_local_cmd sends the error.
init_data(m, e) ==
  LET port == FirstPort + m.s.nlsn
      fail(mm) == send_err(mm, MSG_NO_SOCKET, e.w2)
  IN IF ~e.listen THEN fail([m EXCEPT !.s.errno = "EMFILE"])
     ELSE IF ~e.name THEN fail([m EXCEPT !.s.nlsn = @ + 1, !.s.errno = "ENOBUFS"])
     ELSE LET m1 == [m EXCEPT !.s.nlsn = @ + 1, !.s.lsn = @ \cup {port}]
              m2 == send_ack(m1, port, e.w1)
          IN IF ~e.w1 THEN fail(m2)
             ELSE [m2 EXCEPT !.s.pc = "accept", !.s.tmp = port]

\* handle_local_cmd
handle_local_cmd(m, cmd, e) ==
  CASE cmd.type = CMD_EXIT -> server_exit(m, e)
    [] cmd.type = CMD_DATA ->
         IF AssertNoData(m.s.data_sock) THEN init_data(m, e)
         ELSE ProcessEnd(m, "aborted", EXIT_FAILURE)
    [] cmd.type = CMD_RCD ->
         LET m1 == cmd_chdir(m, cmd.arg)
         IN IF ChdirOk(m.s, cmd.arg) THEN send_ack(m1, NoSock, e.w1)
            ELSE send_err(m1, StrError(m1.s.errno), e.w1)
    [] OTHER -> send_err(m, MSG_UNRECOGNIZED, e.w1)

\* handle_put_cmd up to its send_file: create the destination, respond, and
\* (pc "recv") go on to stream the data connection into it
\* a PUT that starts streaming the data handle without responding first
handle_put_cmd_ReadFirst(m, path, e) ==
  LET dest == basename_of(path)
      err == OpenExcl(m.s, dest)
  IN IF err = ""
     THEN [m EXCEPT !.s.fs[m.s.cwd][dest] = [ex |-> TRUE, data |-> <<>>],
                    !.s.files = @ \cup {[path |-> dest, mode |-> "w"]},
                    !.s.pc = "recv",
                    !.s.xfer = [NoXfer EXCEPT !.cmd = CMD_PUT, !.dest = dest]]
     ELSE respond([m EXCEPT !.s.errno = err], FALSE, e.w1)

handle_put_cmd(m, path, e) ==
  LET dest == basename_of(path)
      err == OpenExcl(m.s, dest)
      m1 == IF err = ""
            THEN [m EXCEPT !.s.fs[m.s.cwd][dest] = [ex |-> TRUE, data |-> <<>>],
                           !.s.files = @ \cup {[path |-> dest, mode |-> "w"]}]
            ELSE [m EXCEPT !.s.errno = err]
      m2 == respond(m1, err = "", e.w1)
  IN IF e.w1 /\ err = ""
     THEN [m2 EXCEPT !.s.pc = "recv",
                     !.s.xfer = [NoXfer EXCEPT !.cmd = CMD_PUT, !.dest = dest]]
     ELSE m2

\* a guard that lets every data command through
NoDataSock_Never(data_sock) == FALSE

\* handle_data_cmd's guard: no data connection has been created
NoDataSock(data_sock) == data_sock < 0

\* handle_data_cmd up to the transfer: without a data handle the error
\* response; for RLS and GET/SHOW (pc "send") the bytes to write to the data
\* handle, or the error response when the source cannot be opened
handle_data_cmd(m, cmd, e) ==
  IF NoDataSock(m.s.data_sock) THEN send_err(m, MSG_NO_DATA, e.w1)
  ELSE IF cmd.type = CMD_PUT THEN handle_put_cmd(m, cmd.arg, e)
  ELSE IF cmd.type = CMD_RLS
    THEN IF e.fork
         THEN [m EXCEPT !.s.pc = "send",
                        !.s.xfer = [NoXfer EXCEPT !.cmd = CMD_RLS, !.src = Listing(m.s)]]
         ELSE respond([m EXCEPT !.s.errno = "EAGAIN"], FALSE, e.w1)
  ELSE LET err == OpenForRead(m.s, cmd.arg)
       IN IF err = ""
          THEN [m EXCEPT !.s.pc = "send",
                         !.s.files = @ \cup {[path |-> cmd.arg, mode |-> "r"]},
                         !.s.xfer = [NoXfer EXCEPT !.cmd = cmd.type,
                                                   !.src = m.s.fs[m.s.cwd][cmd.arg].data]]
          ELSE respond([m EXCEPT !.s.errno = err], FALSE, e.w1)

\* close(*data_sock) without clearing the handle
CloseData_Keep(m) == CloseDataFd(m, m.s.data_sock)

\* process_command's close(*data_sock); *data_sock = -1 after a data command
CloseData(m) ==
  [CloseDataFd(m, m.s.data_sock) EXCEPT !.s.data_sock = NoSock]

\* a data command has returned to process_command
FinishDataCmd(m) ==
  [CloseData(m) EXCEPT !.s.pc = "read", !.s.xfer = NoXfer]

\* a decoder that keeps the code byte in the argument
DecodeCommand_WholeLine(msg) == [type |-> cmd_get_type(msg[1]), arg |-> msg]

\* process_command's struct command: the first byte of msg is the code,
\* the remainder the argument
DecodeCommand(msg) == [type |-> cmd_get_type(msg[1]), arg |-> Tail(msg)]

\* process_command: decode msg, dispatch
process_command(m, msg, e) ==
  LET cmd == DecodeCommand(msg)
  IN IF cmd.type = CMD_INVALID THEN send_err(m, MSG_UNRECOGNIZED, e.w1)
     ELSE IF ~cmd_needs_data(cmd.type) THEN handle_local_cmd(m, cmd, e)
     ELSE LET m1 == handle_data_cmd(m, cmd, e)
          IN IF m1.s.pc = "read" THEN FinishDataCmd(m1) ELSE m1

\* what the environment decides while one step of the child runs: whether
\* listen_on, getsockname and fork succeed, whether cmd_ls returns 0,
\* whether a write to a data connection the peer has closed still succeeds,
\* and whether the first and second control write succeed.  `asks` names the
\* decisions the step can depend on; the others are fixed.
Env(asks) ==
  LET W == IF ctl.cli_open THEN {TRUE} ELSE BOOLEAN
      B(f) == IF f \in asks THEN BOOLEAN ELSE {TRUE}
  IN [listen : B("listen"), name : B("name"), fork : B("fork"), ls : B("ls"),
      dw : B("dw"), w1 : W, w2 : IF "w2" \in asks THEN W ELSE {TRUE}]

\* the decisions the processing of control line msg can depend on
ReadAsks(msg) ==
  IF msg = <<>> THEN {}
  ELSE IF msg[1] = "D" THEN {"listen", "name", "w2"}
  ELSE IF msg[1] = "L" THEN {"fork"}
  ELSE {}

Apply(m) == srv' = m.s /\ ctl' = m.c /\ dat' = m.d

\* handle_connection: one turn of the loop, up to the next blocking call
handle_connection(m, r, e) ==
  LET m0 == [m EXCEPT !.c.c2s = r.rest,
                      !.s.last = [msg |-> r.buf, st |-> r.st,
                                  data0 |-> m.s.data_sock, rsp |-> <<>>,
                                  fs0 |-> m.s.fs, accepted |-> FALSE]]
  IN IF Len(r.buf) > 0
     THEN process_command([m0 EXCEPT !.s.nread = @ + 1], r.buf, e)
     ELSE ProcessEnd(m0, "exited", EXIT_FAILURE)

SrvRead ==
  /\ srv.pc = "read"
  /\ LET r == read_line(ctl.c2s, ~ctl.cli_open, CFG_MAXLINE + 1)
     IN /\ r.st # "block"
        /\ \E e \in Env(ReadAsks(r.buf)) : Apply(handle_connection(Machine, r, e))
  /\ UNCHANGED <<cli, peer, call, proc>>

\* init_data from its accept on, when accept returns a connection: close the
\* listener and return the descriptor, which handle_local_cmd installs
accept_ok(m) ==
  [m EXCEPT !.s.data_sock = m.d.id, !.s.open = @ \cup {m.d.id},
            !.s.lsn = @ \ {m.s.tmp}, !.s.tmp = NoSock, !.s.pc = "read",
            !.s.last.accepted = TRUE,
            !.d.st = "open", !.d.srv_open = TRUE]

\* a failed accept after which no error is sent
accept_fail_Silent(m, e) ==
  [m EXCEPT !.s.tmp = NoSock, !.s.pc = "read", !.s.errno = "ECONNABORTED"]

\* init_data when accept fails: it returns -1 and handle_local_cmd sends
\* the error
accept_fail(m, e) ==
  send_err([m EXCEPT !.s.tmp = NoSock, !.s.pc = "read", !.s.errno = "ECONNABORTED"],
           MSG_NO_SOCKET, e.w1)

SrvAccept ==
  /\ srv.pc = "accept"
  /\ dat.st = "pending" /\ dat.id = srv.tmp
  /\ Apply(accept_ok(Machine))
  /\ UNCHANGED <<cli, peer, call, proc>>

SrvAcceptFail ==
  /\ srv.pc = "accept"
  /\ \E e \in Env({}) : Apply(accept_fail(Machine, e))
  /\ UNCHANGED <<cli, peer, call, proc>>

\* handle_data_cmd after the transfer of RLS or GET/SHOW: send_path closes
\* its source, then respond, return
send_done(m, result, e) ==
  FinishDataCmd(respond([m EXCEPT !.s.files = {f \in @ : f.mode # "r"}],
                        result, e.w1))

\* a transfer that responds on the control connection before its first write
send_step_AckFirst(m, e) ==
  LET x == m.s.xfer
  IN IF x.src = <<>> THEN FinishDataCmd(m)
     ELSE IF m.s.last.rsp = <<>> /\ e.w1 THEN respond(m, TRUE, e.w1)
     ELSE [m EXCEPT !.d.down = Append(@, Head(x.src)), !.s.xfer.src = Tail(@)]

\* one write of send_file (GET/SHOW) or of the ls child (RLS) to the data
\* handle, or the end of the source
send_step(m, e) ==
  LET x == m.s.xfer
  IN IF x.src = <<>>
     THEN send_done(m, IF x.cmd = CMD_RLS THEN e.ls ELSE TRUE, e)
     ELSE IF m.d.cli_open
       THEN [m EXCEPT !.d.down = Append(@, Head(x.src)), !.s.xfer.src = Tail(@)]
     ELSE IF e.dw THEN [m EXCEPT !.s.xfer.src = Tail(@)]
     ELSE send_done([m EXCEPT !.s.errno = "EPIPE"], FALSE, e)

SrvSend ==
  /\ srv.pc = "send"
  /\ (srv.xfer.src # <<>> /\ dat.cli_open) => Len(dat.down) < DataCap
  /\ \E e \in Env({"ls", "dw"}) : Apply(send_step(Machine, e))
  /\ UNCHANGED <<cli, peer, call, proc>>

\* send_file(dest_fd, *data_sock) of handle_put_cmd: read_all fills the
\* buffer from the data handle; a full buffer, or what was read before the
\* end of the stream, is written to the destination
recv_step(m) ==
  LET x == m.s.xfer
      r == read_until(m.d.up, ~m.d.cli_open, (BUFSIZ - 1) - Len(x.buf), FALSE, x.buf)
      m1 == [m EXCEPT !.d.up = r.rest]
      flush(mm) == [mm EXCEPT !.s.fs[m.s.cwd][x.dest].data = @ \o r.buf,
                              !.s.xfer.buf = <<>>]
  IN CASE r.st = "block" -> [m1 EXCEPT !.s.xfer.buf = r.buf]
       [] r.st = "full" -> flush(m1)
       [] r.st = "eof" -> FinishDataCmd(flush(m1))

SrvRecv ==
  /\ srv.pc = "recv"
  /\ dat.up # <<>> \/ ~dat.cli_open
  /\ Apply(recv_step(Machine))
  /\ UNCHANGED <<cli, peer, call, proc>>

(* -------------------------- an arbitrary peer ------------------------ *)

\* the control lines an arbitrary peer chooses from: every wire code with
\* the arguments that make it succeed and fail, an unknown code, the empty line
PeerLines ==
  { <<>>, <<"Q">>, <<"D">>, <<"L">>, <<"X">>,
    <<"C">> \o DirS, <<"C", "n">>,
    <<"G">> \o FileF, <<"G", "n">>,
    <<"P">> \o FileF, <<"P">> \o FileG }

PeerInit == [nsent |-> 0, ndata |-> 0]

PeerSend ==
  /\ ctl.cli_open /\ peer.nsent < MaxLines
  /\ \E line \in PeerLines : ctl' = [ctl EXCEPT !.c2s = @ \o line \o <<LF>>]
  /\ peer' = [peer EXCEPT !.nsent = @ + 1]
  /\ UNCHANGED <<srv, dat, cli, call, proc>>

PeerClose ==
  /\ ctl.cli_open
  /\ ctl' = [ctl EXCEPT !.cli_open = FALSE]
  /\ UNCHANGED <<srv, dat, cli, peer, call, proc>>

\* connect to the port the server advertised, while its listener is open
PeerConnect ==
  /\ srv.pc = "accept"
  /\ ~(dat.st = "pending" /\ dat.id = srv.tmp)
  /\ dat' = [NoData EXCEPT !.st = "pending", !.id = srv.tmp, !.cli_open = TRUE]
  /\ UNCHANGED <<srv, ctl, cli, peer, call, proc>>

PeerDataWrite ==
  /\ dat.cli_open /\ (dat.st = "pending" \/ dat.srv_open)
  /\ Len(dat.up) < DataCap /\ peer.ndata < MaxPeerData
  /\ \E b \in {"z"} : dat' = [dat EXCEPT !.up = Append(@, b)]
  /\ peer' = [peer EXCEPT !.ndata = @ + 1]
  /\ UNCHANGED <<srv, ctl, cli, call, proc>>

PeerDataRead ==
  /\ dat.cli_open /\ dat.down # <<>>
  /\ dat' = [dat EXCEPT !.down = Tail(@)]
  /\ UNCHANGED <<srv, ctl, cli, peer, call, proc>>

PeerDataClose ==
  /\ dat.cli_open
  /\ dat' = [dat EXCEPT !.cli_open = FALSE]
  /\ UNCHANGED <<srv, ctl, cli, peer, call, proc>>

(* ------------------------ the client: mftp.c ------------------------- *)

\* the client's local files: it holds g and no f
CliFsInit ==
  [n \in Names |-> IF n = FileG THEN [ex |-> TRUE, data |-> <<"w">>] ELSE Gone]

\* client_run on entry, before its connect_to.  want and got are the number
\* of the control line whose response the client last waited for and the
\* number of the line the response it then read was written for; nout counts
\* the command lines written to standard output, socks the sockets created
\* for data connections and not closed, eofs the reads of standard input
\* that found it at its end.
CliInit ==
  [pc |-> "start", cmd |-> [type |-> CMD_INVALID, arg |-> <<>>],
   server_sock |-> NoSock,
   data_sock |-> NoSock, status |-> EXIT_SUCCESS, exit_status |-> NoSock,
   stdout_open |-> TRUE, files |-> CliFsInit, nout |-> 0, socks |-> 0,
   eofs |-> 0, ncmds |-> 0, nsent |-> 0, nrecv |-> 0, want |-> 0, got |-> 0, nput |-> 0,
   wrote_d |-> FALSE, port |-> NoSock, connected |-> FALSE, wrote_cmd |-> FALSE]

\* no client process: the peer of the server is arbitrary
CliIdle == [CliInit EXCEPT !.pc = "off"]

\* A machine m = [k, c, d] holds the client record and the two connections
\* while one client function runs.
ClientMachine == [k |-> cli, c |-> ctl, d |-> dat]

\* whether a dprintf on server_sock succeeds: ok decides for the control
\* socket; descriptor 1 takes the line while standard output is open
WriteOk(m, ok) ==
  IF m.k.server_sock = CtlSock THEN ok ELSE m.k.stdout_open

\* the line send_command's dprintf formats: "%c%s\n", or "%c\n" for a NULL
\* argument
CommandLine(cmd) == <<cmd_get_ctl(cmd.type)>> \o cmd.arg \o <<LF>>

\* send_command: "<code><arg>\n" on server_sock; an absent argument is the
\* empty text.  The value is the machine after the write; the function
\* returns EXIT_SUCCESS or EXIT_FAILURE (SendStatus).
send_command(m, cmd, ok) ==
  IF ~WriteOk(m, ok) THEN m
  ELSE IF m.k.server_sock = CtlSock
  THEN [m EXCEPT !.c.c2s = @ \o CommandLine(cmd),
                 !.k.nsent = @ + 1]
  ELSE [m EXCEPT !.k.nout = @ + 1]

SendStatus(ok) == IF ok THEN EXIT_SUCCESS ELSE EXIT_FAILURE

\* a test that takes the error branch only when send_command failed
SendCommandFailed_OnError(ret) == ret # EXIT_SUCCESS

\* setup_data_conn's test of send_command's return value
SendCommandFailed(ret) == ret # -1

\* get_response: read_line on server_sock.  Descriptor 1 delivers nothing:
\* the read fails or reports the end of the input, and each caller treats
\* the two alike.
get_response(m) ==
  IF m.k.server_sock = CtlSock
  THEN read_line(m.c.s2c, ~srv.ctl_open, CFG_MAXLINE + 1)
  ELSE [st |-> "eof", buf |-> <<>>, rest |-> m.c.s2c]

\* the machine after get_response has consumed the line r
TakeResponse(m, r) ==
  IF r.st = "end"
  THEN [m EXCEPT !.c.s2c = r.rest, !.c.tags = Tail(@),
                 !.k.nrecv = @ + 1, !.k.want = m.k.nsent, !.k.got = Head(m.c.tags)]
  ELSE [m EXCEPT !.c.s2c = r.rest]

msg_is_eof(msg) == msg = <<>>

\* close(fd) in the client: descriptor 1 is standard output, any other is the
\* data socket of that name
CliClose(m, fd) ==
  IF fd = STDOUT_FILENO THEN [m EXCEPT !.k.stdout_open = FALSE]
  ELSE IF fd = m.d.id
  THEN [m EXCEPT !.d.cli_open = FALSE, !.k.socks = @ - 1]
  ELSE [m EXCEPT !.k.socks = @ - 1]

\* the process ends: every descriptor it holds is closed
CliExit(m, status) ==
  [m EXCEPT !.k.pc = "exited", !.k.exit_status = status,
            !.c.cli_open = FALSE,
            !.d.cli_open = IF m.k.data_sock = m.d.id THEN FALSE ELSE @,
            !.k.data_sock = NoSock, !.k.socks = 0]

\* run_command has returned status; client_run prints it and prompts again
BackToPrompt(m, status) ==
  [m EXCEPT !.k.pc = "prompt", !.k.status = status, !.k.data_sock = NoSock,
            !.k.nput = 0]

\* connect_to(host, port): the new socket, named by the port, when
\* make_socket succeeds (e.sock), a listener is open at the port and connect
\* succeeds (e.conn); EXIT_FAILURE otherwise.  A connection to the listener
\* the server is accepting on becomes the data connection; one to a listener
\* nobody accepts on has no server end.  The socket made is returned or, when
\* connect fails, left open.
ConnectResult(port, e) ==
  IF e.sock /\ e.conn /\ port \in srv.lsn THEN port ELSE EXIT_FAILURE

connect_to(m, port, e) ==
  IF ~e.sock THEN m
  ELSE IF e.conn /\ port \in srv.lsn /\ port = srv.tmp /\ m.d.st # "pending"
  THEN [m EXCEPT !.d = [NoData EXCEPT !.st = "pending", !.id = port, !.cli_open = TRUE],
                 !.k.socks = @ + 1]
  ELSE [m EXCEPT !.k.socks = @ + 1]

\* a test that accepts every path
test_put_path_Any(k, path) == TRUE

\* is_readable_reg(path) on the client's files
test_put_path(k, path) == path \in Names /\ k.files[path].ex

\* handle_remote_cmd after its send_command: evaluate the response line r
handle_remote_cmd(m, r) ==
  LET m1 == TakeResponse(m, r)
  IN IF msg_is_eof(r.buf) THEN BackToPrompt(m1, EXIT_FAILURE)
     ELSE IF m.k.cmd.type = CMD_EXIT THEN CliExit(m1, EXIT_SUCCESS)
     ELSE IF r.buf[1] = RSP_ERR THEN BackToPrompt(m1, EXIT_FAILURE)
     ELSE BackToPrompt(m1, EXIT_SUCCESS)

\* handle_data_cmd after setup_data_conn returned a data socket: the local
\* half of the command (pc "page", "get", "put")
start_transfer(m) ==
  LET t == m.k.cmd.type
  IN IF t = CMD_RLS \/ t = CMD_SHOW THEN [m EXCEPT !.k.pc = "page"]
     ELSE IF t = CMD_GET
       THEN LET dest == basename_of(m.k.cmd.arg)
            IN IF dest \in Names /\ ~m.k.files[dest].ex
               THEN [m EXCEPT !.k.pc = "get",
                              !.k.files[dest] = [ex |-> TRUE, data |-> <<>>]]
               ELSE BackToPrompt(CliClose(m, m.k.data_sock), EXIT_FAILURE)
     ELSE [m EXCEPT !.k.pc = "put"]

\* setup_data_conn from the return of init_data_sock on: send the command,
\* then (pc "ack") wait for the server's response
setup_data_conn(m, data_sock, e) ==
  IF data_sock < 0 THEN BackToPrompt(m, EXIT_FAILURE)
  ELSE LET m1 == [send_command(m, m.k.cmd, e.w1) EXCEPT
                    !.k.data_sock = data_sock, !.k.wrote_cmd = WriteOk(m, e.w1)]
       IN IF SendCommandFailed(SendStatus(WriteOk(m, e.w1)))
          THEN BackToPrompt(CliClose(m1, data_sock), EXIT_FAILURE)
          ELSE [m1 EXCEPT !.k.pc = "ack"]

\* init_data_sock after its send_command: evaluate the response line r to D,
\* connect to the port it carries; then the rest of setup_data_conn
init_data_sock(m, r, e) ==
  LET m1 == TakeResponse(m, r)
  IN IF msg_is_eof(r.buf) THEN setup_data_conn(m1, -1, e)
     ELSE IF Len(r.buf) = 1 THEN setup_data_conn(m1, -1, e)
     ELSE IF r.buf[1] = RSP_ERR THEN setup_data_conn(m1, -1, e)
     ELSE LET port == ParsePort(Tail(r.buf), 0)
              m2 == [connect_to(m1, port, e) EXCEPT
                       !.k.port = port,
                       !.k.connected = (ConnectResult(port, e) = port)]
          IN setup_data_conn(m2, ConnectResult(port, e), e)

\* check_data_response, then the start of the transfer
check_data_response(m, r) ==
  LET m1 == TakeResponse(m, r)
  IN IF msg_is_eof(r.buf) \/ r.buf[1] = RSP_ERR
     THEN BackToPrompt(CliClose(m1, m1.k.data_sock), EXIT_FAILURE)
     ELSE start_transfer(m1)

\* the transfer of handle_data_cmd, one read or write of the data socket at a
\* time; then close(data_sock) and return
transfer_step(m, e) ==
  LET mine == m.k.data_sock = m.d.id
      done(mm, st) == BackToPrompt(CliClose(mm, mm.k.data_sock), st)
  IN IF m.k.pc = "put"
     THEN LET src == m.k.files[m.k.cmd.arg].data
              sent == m.k.nput
          IN IF sent = Len(src) THEN done(m, EXIT_SUCCESS)
             ELSE [m EXCEPT !.d.up = Append(@, src[sent + 1]), !.k.nput = sent + 1]
     ELSE IF m.d.down # <<>>
       THEN IF m.k.pc = "get"
            THEN [m EXCEPT !.d.down = Tail(@),
                           !.k.files[basename_of(m.k.cmd.arg)].data = Append(@, Head(m.d.down))]
            ELSE [m EXCEPT !.d.down = Tail(@)]
     ELSE done(m, EXIT_SUCCESS)

\* the commands the user types, as cmd_parse hands them to run_command
UserCmds ==
  { [type |-> CMD_INVALID, arg |-> <<"n">>], [type |-> CMD_LS, arg |-> <<>>],
    [type |-> CMD_EXIT, arg |-> <<>>], [type |-> CMD_RLS, arg |-> <<>>],
    [type |-> CMD_RCD, arg |-> DirS], [type |-> CMD_RCD, arg |-> <<"n">>],
    [type |-> CMD_GET, arg |-> FileF], [type |-> CMD_GET, arg |-> <<"n">>],
    [type |-> CMD_SHOW, arg |-> FileF],
    [type |-> CMD_PUT, arg |-> FileG], [type |-> CMD_PUT, arg |-> FileF] }

\* what the environment decides while one step of the client runs: whether
\* its write on the control socket succeeds (it does while the server holds
\* its end open), whether socket() and connect() succeed, and what a local
\* command returns
CliEnv ==
  [w1 : IF srv.ctl_open THEN {TRUE} ELSE BOOLEAN, sock : BOOLEAN,
   conn : BOOLEAN, local : {EXIT_SUCCESS, EXIT_FAILURE}]

ApplyCli(m) == cli' = m.k /\ ctl' = m.c /\ dat' = m.d

\* handle_local_cmd of the client: ls and cd touch no socket
local_cmd(m, e) == BackToPrompt(m, e.local)

\* run_command on a parsed command, up to its first blocking read
run_command(m, cmd, e) ==
  LET m0 == [m EXCEPT !.k.cmd = cmd, !.k.ncmds = @ + 1, !.k.wrote_d = FALSE,
                      !.k.port = NoSock, !.k.connected = FALSE,
                      !.k.wrote_cmd = FALSE]
  IN IF cmd.type = CMD_INVALID THEN BackToPrompt(m0, EXIT_FAILURE)
     ELSE IF ~cmd_is_remote(cmd.type) THEN local_cmd(m0, e)
     ELSE IF ~cmd_needs_data(cmd.type)
     THEN IF WriteOk(m0, e.w1)
          THEN [send_command(m0, cmd, e.w1) EXCEPT !.k.pc = "rsp"]
          ELSE BackToPrompt(m0, EXIT_FAILURE)
     ELSE IF cmd.type = CMD_PUT /\ ~test_put_path(m0.k, cmd.arg)
       THEN BackToPrompt(m0, EXIT_FAILURE)
     ELSE [send_command(m0, [type |-> CMD_DATA, arg |-> <<>>], e.w1) EXCEPT
             !.k.pc = "drsp", !.k.wrote_d = WriteOk(m0, e.w1)]

\* client_run up to its loop: connect_to(host, CFG_PORT), which yields the
\* control socket or EXIT_FAILURE, and the test of what it returned.  When
\* no connection is made the server forks no child for this client.
StartResult(e) == IF e.sock /\ e.conn THEN CtlSock ELSE EXIT_FAILURE

client_run(m, e) ==
  LET server_sock == StartResult(e)
      m1 == IF server_sock = CtlSock THEN m
            ELSE [m EXCEPT !.c.cli_open = FALSE]
  IN IF server_sock < 0 THEN CliExit(m1, EXIT_FAILURE)
     ELSE [m1 EXCEPT !.k.pc = "prompt", !.k.server_sock = server_sock]

CliStart ==
  /\ cli.pc = "start"
  /\ \E e \in CliEnv :
       /\ ApplyCli(client_run(ClientMachine, e))
       /\ srv' = IF StartResult(e) = CtlSock THEN srv
                 ELSE [srv EXCEPT !.pc = "nochild", !.ctl_open = FALSE]
  /\ UNCHANGED <<peer, call, proc>>

\* client_run's loop: the user types a command line
CliPrompt ==
  /\ cli.pc = "prompt" /\ cli.ncmds < MaxCmds /\ cli.eofs = 0
  /\ \E cmd \in UserCmds, e \in CliEnv :
       ApplyCli(run_command(ClientMachine, cmd, e))
  /\ UNCHANGED <<srv, peer, call, proc>>

\* client_run's loop when standard input is at its end: read_line returns
\* 0, which is not < 0, buf[0] is NUL as for an empty line, and the loop
\* continues with the next prompt
CliReadEof ==
  /\ cli.pc = "prompt" /\ cli.eofs < MaxEofs
  /\ cli' = [cli EXCEPT !.eofs = @ + 1]
  /\ UNCHANGED <<srv, ctl, dat, peer, call, proc>>

\* the client's next step after a blocking call returns
client_step(m, e) ==
  LET r == get_response(m)
  IN CASE m.k.pc = "rsp" -> handle_remote_cmd(m, r)
       [] m.k.pc = "drsp" -> init_data_sock(m, r, e)
       [] m.k.pc = "ack" -> check_data_response(m, r)
       [] OTHER -> transfer_step(m, e)

\* whether the call the client is blocked in can return
CliCanRun ==
  CASE cli.pc \in {"rsp", "drsp", "ack"} -> get_response(ClientMachine).st # "block"
    [] cli.pc = "put" -> Len(dat.up) < DataCap
    [] cli.pc \in {"page", "get"} -> dat.down # <<>> \/ ~dat.srv_open
    [] OTHER -> FALSE

CliRun ==
  /\ CliCanRun
  /\ \E e \in CliEnv : ApplyCli(client_step(ClientMachine, e))
  /\ UNCHANGED <<srv, peer, call, proc>>

(* ------------------- library functions, one call -------------------- *)

\* no library call is being followed
NoCall == [fn |-> "none", arg |-> <<>>, st |-> <<>>, ret |-> <<>>, done |-> FALSE]

\* a call of fn on arg that has not started
NewCall(fn, arg) == [NoCall EXCEPT !.fn = fn, !.arg = arg]

\* cmd_get_type(c), and cmd_get_ctl of the kind it returns
CallGetType ==
  /\ call.fn = "cmd_get_type" /\ ~call.done
  /\ call' = [call EXCEPT !.ret = [type |-> cmd_get_type(call.arg),
                                   ctl |-> cmd_get_ctl(cmd_get_type(call.arg))],
                          !.done = TRUE]
  /\ UNCHANGED <<srv, ctl, dat, cli, peer, proc>>

\* read_line(fd, buf, buf_size), one turn of read_until's loop at a time.
\* The argument holds the bytes the descriptor delivers before its end and
\* the buffer as it is before the call; the buffer is indexed from 1 here,
\* from 0 in the source.  at is the number of bytes kept so far
\* (buf_size - 1 - remaining), top the highest index written (0: none).
ReadLineStart(arg) ==
  [buf |-> arg.old, rest |-> arg.stream, at |-> 0, top |-> 0]

\* the loop's condition: remaining > 0, and read(fd, buf, 1) is attempted
ReadLineLoops(arg, s) == (Len(arg.old) - 1) - s.at > 0

\* one turn: read(fd, buf, 1) stores the byte; a newline is replaced by NUL
\* and ends the loop, the end of the stream ends it too
ReadLineTurn(s) ==
  IF s.rest = <<>> THEN s
  ELSE LET c == Head(s.rest)
           s1 == [s EXCEPT !.rest = Tail(@),
                           !.top = IF s.at + 1 > @ THEN s.at + 1 ELSE @]
       IN IF is_newline(c)
          THEN [s1 EXCEPT !.buf[s.at + 1] = "NUL"]
          ELSE [s1 EXCEPT !.buf[s.at + 1] = c, !.at = @ + 1]

\* whether the turn taken from s ends the loop
ReadLineBreaks(s) == s.rest = <<>> \/ is_newline(Head(s.rest))

CallReadLine ==
  /\ call.fn = "read_line" /\ ~call.done
  /\ LET s == IF call.st = <<>> THEN ReadLineStart(call.arg) ELSE call.st
     IN IF ReadLineLoops(call.arg, s)
        THEN LET s1 == ReadLineTurn(s)
             IN call' = [call EXCEPT !.st = s1,
                                     !.done = ReadLineBreaks(s),
                                     !.ret = IF ReadLineBreaks(s) THEN s1.at ELSE @]
        ELSE call' = [call EXCEPT !.st = s, !.done = TRUE, !.ret = s.at]
  /\ UNCHANGED <<srv, ctl, dat, cli, peer, proc>>

\* write_buf(fd, buf, buf_size), one turn of its loop at a time.  The
\* argument holds the bytes of buf and, for each write(2) in turn, how many
\* bytes the destination is ready to take; write accepts that many or all
\* that remain.  dest is what the destination has received, at the number of
\* bytes buf has advanced by, total the running count, n the writes made.
WriteBufStart(arg) ==
  [dest |-> <<>>, remaining |-> Len(arg.data), total |-> 0, at |-> 0, n |-> 0]

\* write(fd, buf, remaining) on the destination: the number of bytes taken
Accepted(arg, s) ==
  IF arg.takes[s.n + 1] < s.remaining THEN arg.takes[s.n + 1] ELSE s.remaining

\* a turn that leaves the buffer pointer where it was
WriteBufTurn_NoAdvance(arg, s) ==
  LET prev_bytes == Accepted(arg, s)
  IN [s EXCEPT !.dest = @ \o SubSeq(arg.data, 1, prev_bytes),
               !.remaining = @ - prev_bytes, !.total = @ + prev_bytes,
               !.n = @ + 1]

\* one turn of the loop: write, then remaining -= prev_bytes,
\* total_bytes += prev_bytes, buf += prev_bytes
WriteBufTurn(arg, s) ==
  LET prev_bytes == Accepted(arg, s)
  IN [s EXCEPT !.dest = @ \o SubSeq(arg.data, s.at + 1, s.at + prev_bytes),
               !.remaining = @ - prev_bytes, !.total = @ + prev_bytes,
               !.at = @ + prev_bytes, !.n = @ + 1]

CallWriteBuf ==
  /\ call.fn = "write_buf" /\ ~call.done
  /\ IF Len(call.arg.data) <= 0
     THEN call' = [call EXCEPT !.st = WriteBufStart(call.arg), !.ret = -1,
                               !.done = TRUE]
     ELSE LET s == IF call.st = <<>> THEN WriteBufStart(call.arg) ELSE call.st
          IN IF s.remaining > 0
             THEN call' = [call EXCEPT !.st = WriteBufTurn(call.arg, s)]
             ELSE call' = [call EXCEPT !.ret = s.total, !.done = TRUE]
  /\ UNCHANGED <<srv, ctl, dat, cli, peer, proc>>

\* write_buf on a positive number of bytes, its loop run to the end
RECURSIVE write_buf(_, _)
write_buf(arg, s) ==
  IF s.remaining > 0 THEN write_buf(arg, WriteBufTurn(arg, s)) ELSE s

\* a read_all that stops at a newline, as read_line does
read_all_Line(stream, buf_size) ==
  read_until(stream, TRUE, buf_size - 1, TRUE, <<>>)

\* read_all(fd, buf, buf_size) on a descriptor that delivers `stream` and
\* then its end: read_until without a terminator
read_all(stream, buf_size) ==
  read_until(stream, TRUE, buf_size - 1, FALSE, <<>>)

\* send_file(dest_fd, src_fd), one turn of its loop at a time.  The argument
\* holds the bytes of the source, the size passed to read_all (sizeof(buf) - 1,
\* BUFSIZ in the source; the loop is run on small buffers here so that files
\* of several buffers are among the inputs) and, for each write(2) in turn,
\* how many bytes the destination is ready to take.  rest is what the source
\* has still to deliver, dest what the destination has received, n the
\* writes made.
SendFileStart(arg) == [rest |-> arg.data, dest |-> <<>>, n |-> 0]

\* one turn: read_all, then write_buf of the bytes read; ok tells whether
\* written_bytes = prev_bytes
SendFileTurn(arg, s) ==
  LET r == read_all(s.rest, arg.size)
      w == write_buf([data |-> r.buf, takes |-> Skip(arg.takes, s.n)],
                     WriteBufStart([data |-> r.buf]))
  IN [prev_bytes |-> Len(r.buf),
      ok |-> w.total = Len(r.buf),
      s |-> [rest |-> r.rest, dest |-> s.dest \o w.dest, n |-> s.n + w.n]]

CallSendFile ==
  /\ call.fn = "send_file" /\ ~call.done
  /\ LET s == IF call.st = <<>> THEN SendFileStart(call.arg) ELSE call.st
         t == SendFileTurn(call.arg, s)
     IN IF t.prev_bytes = 0
        THEN call' = [call EXCEPT !.st = s, !.ret = EXIT_SUCCESS, !.done = TRUE]
        ELSE IF ~t.ok
          THEN call' = [call EXCEPT !.st = t.s, !.ret = EXIT_FAILURE, !.done = TRUE]
        ELSE call' = [call EXCEPT !.st = t.s]
  /\ UNCHANGED <<srv, ctl, dat, cli, peer, proc>>

\* the first words of the user lines cmd_parse is called on
LineWords ==
  { NameChars(n) : n \in {"exit", "cd", "rcd", "ls", "rls", "get", "show", "put"} }
  \cup { <<>>, <<"e", "x">>, <<"e", "x", "i", "t", "t">>, <<"c", "d", "x">>,
         <<"l">>, <<"E", "X", "I", "T">>, <<"Q">>, <<"d", "a", "t", "a">> }

\* the user lines cmd_parse is called on, in four parts: white space in
\* front, a word, white space, and a text that is empty or starts with a
\* character that is no white space
ParseInputs ==
  { [lead |-> l, word |-> w, ws |-> s, text |-> x] :
      l \in { <<>>, <<" ">> }, w \in LineWords,
      s \in { <<>>, <<" ">>, <<"\t", " ">>, <<" ", "\n">> },
      x \in { <<>>, <<"a">>, <<"a", " ", "b">>, <<"a", "\t">>, <<"c", "d">> } }

\* the line the four parts make
LineOf(in) == in.lead \o in.word \o in.ws \o in.text

CallParse ==
  /\ call.fn = "cmd_parse" /\ ~call.done
  /\ \E beyond \in BOOLEAN :
       call' = [call EXCEPT !.ret = cmd_parse(LineOf(call.arg), beyond),
                            !.done = TRUE]
  /\ UNCHANGED <<srv, ctl, dat, cli, peer, proc>>

\* one command through the wire: the line send_command writes for it, read
\* by handle_connection's read_line into a buffer of `size` bytes
\* (CFG_MAXLINE + 1 in the source) and decoded by process_command
CallCodec ==
  /\ call.fn = "codec" /\ ~call.done
  /\ LET r == read_line(CommandLine(call.arg.cmd), FALSE, call.arg.size)
     IN call' = [call EXCEPT !.ret = [st |-> r.st, rest |-> r.rest,
                                      cmd |-> DecodeCommand(r.buf)],
                             !.done = TRUE]
  /\ UNCHANGED <<srv, ctl, dat, cli, peer, proc>>

(* -------------------- a process and its children --------------------- *)

\* A process that forks: the server parent in run_server ("parent"), the
\* server child in cmd_ls for RLS ("rls"), the client in local_ls ("lls"),
\* a process in page_fd ("page").  kids maps each child it may fork to its
\* state (unborn, run, loop, zombie, reaped), its exit status, who reaped it
\* and, for a server child, the sockets of the parent it holds open; a child
\* in state loop has returned from the function that forked it and runs its
\* caller's code;
\* pending tells whether a SIGCHLD is pending, hnd whether handle_sigchld
\* has been entered and has not returned.  status is what exec_to_fd's wait
\* stored and the child it came from, ret the value the function returned,
\* rsp the response the server child wrote.
NoProc ==
  [sc |-> "none", pc |-> "", kids |-> <<>>, pending |-> FALSE, hnd |-> FALSE,
   status |-> [of |-> "", code |-> 0], ret |-> 0, rsp |-> "", done |-> FALSE]

NewProc(sc, pc, names) ==
  [NoProc EXCEPT !.sc = sc, !.pc = pc, !.kids = [k \in names |->
                             [st |-> "unborn", code |-> 0, by |-> "",
                              fds |-> {}]]]

Running(p) == {k \in DOMAIN p.kids : p.kids[k].st \in {"run", "loop"}}
Zombies(p) == {k \in DOMAIN p.kids : p.kids[k].st = "zombie"}

\* main installs handle_sigchld in the server; a child the server forks
\* inherits it, the client installs no handler
HasHandler(p) == p.sc \in {"parent", "rls"}

\* fork() returning the child k to the parent
Fork(p, k) == [p EXCEPT !.kids[k].st = "run"]

\* wait(2) returns: a child has exited, or there is no child to wait for
CanWait(p) == Zombies(p) # {} \/ Running(p) = {}

\* wait(2) that returned the child k
Reap(p, k, who) == [p EXCEPT !.kids[k].st = "reaped", !.kids[k].by = who]

\* a child exits; the kernel raises SIGCHLD, which stays a single pending
\* signal however many children exit before it is delivered
ChildExit ==
  /\ \E k \in Running(proc), code \in {EXIT_SUCCESS, EXIT_FAILURE} :
       proc' = [proc EXCEPT !.kids[k].st = "zombie", !.kids[k].code = code,
                            !.kids[k].fds = {},
                            !.pending = @ \/ HasHandler(proc)]
  /\ UNCHANGED <<srv, ctl, dat, cli, peer, call>>

\* the pending SIGCHLD is delivered: handle_sigchld is entered, with SIGCHLD
\* blocked until it returns
SigChld ==
  /\ proc.pending /\ ~proc.hnd /\ proc.pc # "exited"
  /\ proc' = [proc EXCEPT !.pending = FALSE, !.hnd = TRUE]
  /\ UNCHANGED <<srv, ctl, dat, cli, peer, call>>

\* handle_sigchld: one wait, then return
handle_sigchld ==
  /\ proc.hnd /\ CanWait(proc)
  /\ \/ \E k \in Zombies(proc) :
          proc' = [Reap(proc, k, "handler") EXCEPT !.hnd = FALSE]
     \/ /\ Zombies(proc) = {}
        /\ proc' = [proc EXCEPT !.hnd = FALSE]
  /\ UNCHANGED <<srv, ctl, dat, cli, peer, call>>

\* run_server: one turn of the loop in which accept returns the connection
\* k.  When addr_to_hostname or fork fails run_server returns EXIT_FAILURE
\* and main with it; otherwise the child, which holds sock and client_sock
\* as the parent did, goes on to handle_connection, and the parent closes
\* client_sock and is back at accept.  A turn in which accept fails changes
\* nothing.
ServerFork ==
  /\ proc.sc = "parent" /\ proc.pc = "accept" /\ ~proc.hnd
  /\ \E k \in DOMAIN proc.kids, e \in [host : BOOLEAN, fork : BOOLEAN] :
       /\ proc.kids[k].st = "unborn"
       /\ \A j \in DOMAIN proc.kids : proc.kids[j].st = "unborn" => k <= j
       /\ proc' = IF e.host /\ e.fork
                  THEN [Fork(proc, k) EXCEPT
                          !.kids[k].fds = {"sock", "client_sock"}]
                  ELSE [proc EXCEPT !.ret = EXIT_FAILURE, !.done = TRUE,
                                    !.pc = "exited"]
  /\ UNCHANGED <<srv, ctl, dat, cli, peer, call>>

\* the child of exec_to_fd or the first child of page_fd when its dup2 or
\* execvp fails: Q_FAIL_IF returns EXIT_FAILURE from the function, in the
\* child, which goes on in the code of the function's caller
ExecFails ==
  /\ proc.sc \in {"rls", "lls", "page"}
  /\ \E k \in DOMAIN proc.kids :
       /\ k \in {"ls", "more"} /\ proc.kids[k].st = "run"
       /\ proc' = [proc EXCEPT !.kids[k].st = "loop"]
  /\ UNCHANGED <<srv, ctl, dat, cli, peer, call>>

\* cmd_ls after exec_to_fd returned: the value it returns, and what its
\* caller does with it.  The server child responds; local_ls goes on to its
\* own wait.
cmd_ls_returns(p, result) ==
  IF p.sc = "rls"
  THEN [p EXCEPT !.ret = result, !.done = TRUE, !.pc = "done",
                 !.rsp = IF result = EXIT_SUCCESS THEN RSP_ACK ELSE RSP_ERR]
  ELSE [p EXCEPT !.ret = result, !.pc = "lwait"]

\* exec_to_fd up to its wait: fork the child that runs ls -l
ExecFork ==
  /\ proc.pc = "exec" /\ ~proc.hnd
  /\ \/ proc' = [Fork(proc, "ls") EXCEPT !.pc = "wait"]
     \/ proc' = cmd_ls_returns(proc, -1)
  /\ UNCHANGED <<srv, ctl, dat, cli, peer, call>>

\* exec_to_fd's wait(status) has returned the child k
exec_wait(p, k) ==
  cmd_ls_returns([Reap(p, k, "main") EXCEPT
                    !.status = [of |-> k, code |-> p.kids[k].code]],
                 p.kids[k].code)

ExecWait ==
  /\ proc.pc = "wait" /\ ~proc.hnd /\ CanWait(proc)
  /\ \/ \E k \in Zombies(proc) : proc' = exec_wait(proc, k)
     \/ /\ Zombies(proc) = {}
        /\ proc' = cmd_ls_returns(proc, -1)
  /\ UNCHANGED <<srv, ctl, dat, cli, peer, call>>

\* local_ls up to cmd_ls: pipe, then fork the child that pages the output
LocalFork ==
  /\ proc.pc = "lfork"
  /\ \/ proc' = [Fork(proc, "pager") EXCEPT !.pc = "exec"]
     \/ proc' = [proc EXCEPT !.ret = EXIT_FAILURE, !.done = TRUE, !.pc = "done"]
  /\ UNCHANGED <<srv, ctl, dat, cli, peer, call>>

\* local_ls after cmd_ls: wait(NULL), then return ls_result
LocalWait ==
  /\ proc.pc = "lwait" /\ CanWait(proc)
  /\ \/ \E k \in Zombies(proc) :
          proc' = [Reap(proc, k, "main") EXCEPT !.done = TRUE, !.pc = "done"]
     \/ /\ Zombies(proc) = {}
        /\ proc' = [proc EXCEPT !.ret = EXIT_FAILURE, !.done = TRUE, !.pc = "done"]
  /\ UNCHANGED <<srv, ctl, dat, cli, peer, call>>

\* page_fd up to its first wait: pipe, fork the child that runs more, fork
\* the child that streams into the pipe.  The second fork is not checked.
PageFork ==
  /\ proc.pc = "pfork"
  /\ \E e \in [pipe : BOOLEAN, more : BOOLEAN, send : BOOLEAN] :
       proc' = IF ~e.pipe \/ ~e.more
               THEN [proc EXCEPT !.ret = EXIT_FAILURE, !.done = TRUE,
                                 !.pc = "done"]
               ELSE [(IF e.send THEN Fork(Fork(proc, "more"), "send")
                      ELSE Fork(proc, "more")) EXCEPT !.pc = "wait1"]
  /\ UNCHANGED <<srv, ctl, dat, cli, peer, call>>

\* page_fd after a wait(&result) that returned a child: result is
\* overwritten and not looked at; after the second wait page_fd returns
\* EXIT_SUCCESS
page_wait(p, k) ==
  LET p1 == [Reap(p, k, "main") EXCEPT
               !.status = [of |-> k, code |-> p.kids[k].code]]
  IN IF p.pc = "wait1" THEN [p1 EXCEPT !.pc = "wait2"]
     ELSE [p1 EXCEPT !.ret = EXIT_SUCCESS, !.done = TRUE, !.pc = "done"]

PageWait ==
  /\ proc.pc \in {"wait1", "wait2"} /\ CanWait(proc)
  /\ \/ \E k \in Zombies(proc) : proc' = page_wait(proc, k)
     \/ /\ Zombies(proc) = {}
        /\ proc' = [proc EXCEPT !.ret = EXIT_FAILURE, !.done = TRUE, !.pc = "done"]
  /\ UNCHANGED <<srv, ctl, dat, cli, peer, call>>

(* --------------------------- specifications -------------------------- *)

\* the server child serving an arbitrary peer
Init ==
  /\ srv = SrvInit /\ ctl = CtlInit /\ dat = NoData
  /\ cli = CliIdle /\ peer = PeerInit /\ call = NoCall /\ proc = NoProc

Next ==
  \/ SrvRead \/ SrvAccept \/ SrvAcceptFail \/ SrvSend \/ SrvRecv
  \/ PeerSend \/ PeerClose \/ PeerConnect
  \/ PeerDataWrite \/ PeerDataRead \/ PeerDataClose

Spec == Init /\ [][Next]_vars

\* the server child serving the mftp client
InitClient ==
  /\ srv = SrvInit /\ ctl = CtlInit /\ dat = NoData
  /\ cli = CliInit /\ peer = PeerInit /\ call = NoCall /\ proc = NoProc

NextClient ==
  \/ CliStart \/ CliPrompt \/ CliReadEof \/ CliRun
  \/ SrvRead \/ SrvAccept \/ SrvAcceptFail \/ SrvSend \/ SrvRecv

SpecClient == InitClient /\ [][NextClient]_vars

\* single calls of the library functions on inputs drawn from bounded sets.
\* cmd_get_type is called on the wire codes, other letters, the response
\* codes, white space, a digit, NUL and the byte that equals -1 where char
\* is signed; read_line on every stream of "a" and LF and on buffers that
\* are all NUL or all "#" before the call; write_buf on buffers whose bytes
\* are all different and on every short-write pattern of the destination;
\* send_file on every content of bytes that include NUL and LF, every
\* buffer size and every short-write pattern; the wire codec on every kind
\* that has a wire code, arguments that hold a blank and a code letter, and
\* line buffers the longest lines do not fit.
InitLib ==
  /\ srv = SrvInit /\ ctl = CtlInit /\ dat = NoData
  /\ cli = CliIdle /\ peer = PeerInit /\ proc = NoProc
  /\ \/ \E c \in {"Q", "C", "L", "G", "P", "D", "X", "q", "g", "A", "E",
                   " ", LF, "0", "NUL", "-1"} :
          call = NewCall("cmd_get_type", c)
     \/ \E in \in ParseInputs : call = NewCall("cmd_parse", in)
     \/ \E n \in 0..MaxStream, k \in 1..MaxBuf :
          \E stream \in [1..n -> {"a", LF}], fill \in {"NUL", "#"} :
            call = NewCall("read_line",
                           [stream |-> stream, old |-> [i \in 1..k |-> fill]])
     \/ \E n \in 0..MaxWrite :
          \E takes \in [1..n -> 1..MaxTake] :
            call = NewCall("write_buf",
                           [data |-> [i \in 1..n |-> i], takes |-> takes])
     \/ \E n \in 0..MaxFile :
          \E data \in [1..n -> {"a", "NUL", LF}], size \in 2..MaxChunk,
             takes \in [1..n -> 1..MaxTake] :
            call = NewCall("send_file",
                           [data |-> data, size |-> size, takes |-> takes])
     \/ \E n \in 0..MaxArg :
          \E k \in {c \in DOMAIN info_table : cmd_is_remote(c)},
             a \in [1..n -> {"a", " ", "G"}], size \in 2..MaxBuf + 1 :
            call = NewCall("codec",
                           [cmd |-> [type |-> k, arg |-> a], size |-> size])

NextLib ==
  \/ CallGetType \/ CallParse \/ CallReadLine \/ CallWriteBuf
  \/ CallSendFile \/ CallCodec

SpecLib == InitLib /\ [][NextLib]_vars

\* a process that forks children and waits for them
InitProc ==
  /\ srv = SrvInit /\ ctl = CtlInit /\ dat = NoData
  /\ cli = CliIdle /\ peer = PeerInit /\ call = NoCall
  /\ \/ proc = NewProc("parent", "accept", 1..MaxConn)
     \/ proc = NewProc("rls", "exec", {"ls"})
     \/ proc = NewProc("lls", "lfork", {"pager", "ls"})
     \/ proc = NewProc("page", "pfork", {"more", "send"})

NextProc ==
  \/ ChildExit \/ SigChld \/ handle_sigchld
  \/ ServerFork \/ ExecFails \/ ExecFork \/ ExecWait
  \/ LocalFork \/ LocalWait \/ PageFork \/ PageWait

SpecProc == InitProc /\ [][NextProc]_vars

(* ------------------------------ claims ------------------------------- *)

WireCodes == {"Q", "C", "L", "G", "P", "D"}
DataCodes == {"L", "G", "P"}

\* the server child is between two commands, or has ended
SrvQuiet == srv.pc \in {"read", "accept", "exited", "aborted"}

\* the child has processed a control line starting with a byte of `codes`
\* and is back at the top of its loop
SrvDid(codes) ==
  /\ srv.pc = "read" /\ srv.last.msg # <<>>
  /\ srv.last.msg[1] \in codes

\* the connection named fd is open at the server's end
SrvHolds(fd) == fd \in srv.open /\ dat.id = fd /\ dat.srv_open

\* C1: while the peer holds the control connection open, the server child
\* has never written more response lines than it has read command lines, and
\* between two commands it has written exactly one response per command line.
C1_OneResponsePerCommand ==
  ctl.cli_open =>
    /\ srv.nrsp <= srv.nread
    /\ SrvQuiet => srv.nrsp = srv.nread

\* C2: whenever the client is at its prompt it has read one response line
\* for every control line it wrote, and every response it evaluated was the
\* one the server wrote for the line the client was waiting on.
C2_ClientReadsEveryResponse ==
  /\ cli.pc = "prompt" => cli.nrecv = cli.nsent
  /\ cli.got = cli.want

\* C3: the client writes the real command line of a data-bearing command
\* only after it wrote D, read an ACK carrying a port and connected the data
\* socket to that port.
C3_CommandOnlyAfterConnect ==
  cli.wrote_cmd => (cli.wrote_d /\ cli.port # NoSock /\ cli.connected)

\* C4: when `get f` (f a regular file of the server, no local f) has
\* returned to the prompt after the data socket was connected, its status is
\* EXIT_SUCCESS and the local file f holds the bytes of the server's f.
C4_GetRoundTrip ==
  (/\ cli.pc = "prompt" /\ cli.ncmds = 1
   /\ cli.cmd = [type |-> CMD_GET, arg |-> FileF]
   /\ cli.connected)
  => /\ cli.status = EXIT_SUCCESS
     /\ cli.files[FileF] = [ex |-> TRUE, data |-> ContentF]

\* C5: the server child never holds more than one data connection open.
C5_AtMostOneDataConn == Cardinality(srv.open) <= 1

\* a second D arrived while a data handle was installed
C5_Witness ==
  /\ srv.last.msg = <<"D">> /\ srv.last.data0 # NoSock
  /\ srv.pc # "read"

\* C6: after the server has processed L, G or P the data handle is absent
\* and the connection it named is closed; after a D whose accept returned a
\* connection the data handle is present and open.
C6_DataHandleAfterCommand ==
  /\ SrvDid(DataCodes) =>
       /\ srv.data_sock = NoSock
       /\ srv.open = {}
       /\ ~dat.srv_open
  /\ (SrvDid({"D"}) /\ srv.last.accepted) =>
       /\ srv.data_sock # NoSock
       /\ SrvHolds(srv.data_sock)

\* a data command that found a handle installed has ended with an error response
C6_Witness ==
  /\ SrvDid(DataCodes) /\ srv.last.data0 # NoSock
  /\ srv.last.rsp # <<>> /\ srv.last.rsp[1][1] = RSP_ERR

\* a D handshake has completed
C6_WitnessD == SrvDid({"D"}) /\ srv.last.accepted

\* C7: L, G or P read while no data handle is installed: the server writes
\* the one response "E Data connection not established", starts no transfer,
\* leaves its files as they were and returns to reading the control
\* connection, still without a data handle.
C7_NoHandleNoTransfer ==
  (/\ srv.last.msg # <<>> /\ srv.last.msg[1] \in DataCodes
   /\ srv.last.data0 = NoSock)
  => /\ srv.pc = "read" /\ srv.ctl_open
     /\ srv.xfer = NoXfer
     /\ srv.fs = srv.last.fs0
     /\ srv.data_sock = NoSock
     /\ Len(srv.last.rsp) <= 1
     /\ ctl.cli_open => srv.last.rsp = << <<RSP_ERR>> \o MSG_NO_DATA >>

\* P for a new file name was read with no data handle installed
C7_Witness ==
  /\ srv.last.msg = <<"P">> \o FileG /\ srv.last.data0 = NoSock
  /\ srv.nread > 1

\* C8: a control line whose first byte is no wire code: the server writes
\* the one response "E Unrecognized command" and returns to reading the
\* control connection, which it keeps open.
C8_InvalidCodeContinues ==
  (srv.last.msg # <<>> /\ srv.last.msg[1] \notin WireCodes)
  => /\ srv.pc = "read" /\ srv.ctl_open
     /\ Len(srv.last.rsp) <= 1
     /\ ctl.cli_open => srv.last.rsp = << <<RSP_ERR>> \o MSG_UNRECOGNIZED >>

\* an invalid line was answered and the next line is being read
C8_Witness ==
  /\ srv.last.msg # <<>> /\ srv.last.msg[1] \notin WireCodes
  /\ srv.last.rsp # <<>> /\ srv.nread > 1

\* C9: after an empty control line (a lone LF) the server child has not
\* exited and has written an error response.
C9_EmptyLineContinues ==
  (srv.last.st = "end" /\ srv.last.msg = <<>>)
  => /\ srv.pc # "exited" /\ srv.ctl_open
     /\ ctl.cli_open => (srv.last.rsp # <<>> /\ srv.last.rsp[1][1] = RSP_ERR)

\* C10: after the server has processed an RCD line, or a line with an
\* invalid code, the data handle is what it was before: one installed by a
\* preceding D is still installed and open, an absent one is still absent.
C10_HandleSurvivesRcd ==
  (srv.last.msg # <<>> /\ srv.last.msg[1] \notin (WireCodes \ {"C"}))
  => /\ srv.pc = "read"
     /\ srv.data_sock = srv.last.data0
     /\ srv.data_sock # NoSock => SrvHolds(srv.data_sock)
     /\ srv.data_sock = NoSock => srv.open = {}

\* an RCD that failed was processed with a data handle installed
C10_Witness ==
  /\ srv.last.msg = <<"C", "n">> /\ srv.last.data0 # NoSock
  /\ srv.last.rsp # <<>> /\ srv.last.rsp[1][1] = RSP_ERR

\* the step is the server reading bytes from the data connection it holds
SrvReadsData == dat'.id = dat.id /\ Len(dat'.up) < Len(dat.up)

\* the step is the server reading a control line that starts with `code`
SrvReadsLine(code) ==
  /\ srv'.nread = srv.nread + 1
  /\ srv'.last.msg # <<>> /\ srv'.last.msg[1] = code

\* C11: the server reads bytes from the data handle for PUT only after it
\* has written the ACK for that PUT on the control connection; a PUT whose
\* destination cannot be created exclusively is answered with ERR and
\* reads nothing from the data handle.
C11_PutAckBeforeRead ==
  [][/\ SrvReadsData =>
          /\ srv.last.msg # <<>> /\ srv.last.msg[1] = "P"
          /\ srv.last.rsp = << <<RSP_ACK>> >>
     /\ (/\ SrvReadsLine("P") /\ srv.data_sock # NoSock
         /\ OpenExcl(srv, basename_of(Tail(srv'.last.msg))) # "")
        => /\ srv'.pc = "read" /\ dat'.up = dat.up
           /\ srv'.fs = srv.fs
           /\ ctl.cli_open =>
                /\ Len(srv'.last.rsp) = 1
                /\ srv'.last.rsp[1][1] = RSP_ERR]_vars

\* an acknowledged PUT has read bytes from the data handle
C11_Witness ==
  /\ srv.pc = "recv" /\ srv.last.rsp = << <<RSP_ACK>> >>
  /\ srv.xfer.buf # <<>>

\* a PUT of an existing file was refused while bytes waited on the data handle
C11_WitnessErr ==
  /\ srv.last.msg = <<"P">> \o FileF /\ srv.last.data0 # NoSock
  /\ srv.last.rsp # <<>> /\ srv.last.rsp[1][1] = RSP_ERR
  /\ dat.up # <<>>

\* the step is the server writing bytes to the data connection it holds
SrvWritesData == dat'.id = dat.id /\ Len(dat'.down) > Len(dat.down)

\* C12: for RLS and GET/SHOW with a data handle installed the server
\* writes to the data handle only while it has written no response for the
\* command, and once the response is written the transfer is over: the
\* handle is closed and the child is back at reading the control connection.
C12_AckAfterTransfer ==
  [][/\ SrvWritesData =>
          /\ srv.last.msg # <<>> /\ srv.last.msg[1] \in {"L", "G"}
          /\ srv.last.rsp = <<>> /\ srv'.last.rsp = <<>>
     /\ (/\ srv'.last.msg # <<>> /\ srv'.last.msg[1] \in {"L", "G"}
         /\ srv'.last.data0 # NoSock /\ srv'.last.rsp # <<>>)
        => /\ srv'.pc = "read" /\ srv'.xfer = NoXfer
           /\ srv'.open = {} /\ ~dat'.srv_open
           /\ Len(srv'.last.rsp) = 1]_vars

\* a GET was acknowledged after bytes of the file went out on the data handle
C12_Witness ==
  /\ srv.last.msg = <<"G">> \o FileF /\ srv.last.rsp = << <<RSP_ACK>> >>
  /\ dat.down # <<>>

\* the server is blocked writing payload: the data connection is full and
\* its peer holds it open without having closed
SrvBlockedWriting ==
  /\ srv.pc = "send" /\ srv.xfer.src # <<>>
  /\ dat.cli_open /\ Len(dat.down) >= DataCap

\* the client is blocked reading a response line from the control connection
CliAwaitsResponse ==
  /\ cli.pc \in {"rsp", "drsp", "ack"}
  /\ get_response(ClientMachine).st = "block"

SrvGotQuit == srv.last.msg # <<>> /\ srv.last.msg[1] = "Q"

\* C14 as stated: after reading a Q line the child has written ACK, closed
\* the control connection and exited with success.
C14_QuitExitsWithSuccess ==
  SrvGotQuit =>
    /\ srv.pc = "exited" /\ ~srv.ctl_open
    /\ srv.last.rsp = << <<RSP_ACK>> >>
    /\ srv.status = EXIT_SUCCESS

\* C14 amended: after reading a Q line, with or without a data handle
\* installed, the child has exited with every connection closed and takes no
\* further step; it has written at most the one ACK, its status is
\* EXIT_SUCCESS exactly when the ACK was written, and the ACK was written
\* whenever the peer still holds the control connection open.
C14_QuitExits ==
  [][(srv'.last.msg # <<>> /\ srv'.last.msg[1] = "Q") =>
       /\ srv'.pc = "exited" /\ ~srv'.ctl_open
       /\ srv'.open = {} /\ ~dat'.srv_open
       /\ srv'.last.rsp \in { <<>>, << <<RSP_ACK>> >> }
       /\ srv'.status = EXIT_SUCCESS <=> srv'.last.rsp # <<>>
       /\ ctl'.cli_open => srv'.last.rsp # <<>>
       /\ SrvGotQuit => srv' = srv]_vars

\* Q arrived while a data handle was installed and was acknowledged
C14_Witness ==
  /\ SrvGotQuit /\ srv.last.data0 # NoSock
  /\ srv.pc = "exited" /\ srv.status = EXIT_SUCCESS

\* the peer holds neither connection open: it has closed both or has died
PeerGone == ~ctl.cli_open /\ ~dat.cli_open

\* a call the child is blocked in can return without the kernel reporting
\* a failure
SrvCanStep == ENABLED (SrvRead \/ SrvAccept \/ SrvSend \/ SrvRecv)

\* C15: once the client has closed the control connection (or died), the
\* server child has exited or is able to take its next step towards
\* exiting, wherever it was: reading a control line, in accept after having
\* sent the port, or in a transfer.
C15_ChildExitsWhenClientGone ==
  (PeerGone /\ srv.pc \notin {"exited", "aborted"}) => SrvCanStep

\* a finished call of the library function fn
Called(fn) == call.fn = fn /\ call.done

\* C16: cmd_get_ctl(cmd_get_type(c)) = c for each of the six wire codes c,
\* and cmd_get_type yields CMD_INVALID for every other byte.
C16_CodeRoundTrip ==
  Called("cmd_get_type") =>
    /\ call.arg \in WireCodes => call.ret.ctl = call.arg
    /\ call.arg \notin WireCodes => call.ret.type = CMD_INVALID

\* the code shared by get and show was looked up
C16_Witness ==
  /\ Called("cmd_get_type") /\ call.arg = "G"
  /\ call.ret.type = CMD_GET

\* the names of the commands that take no argument and of those that take one
NoArgNames == { NameChars(n) : n \in {"exit", "ls", "rls"} }
ArgNames == { NameChars(n) : n \in {"cd", "rcd", "get", "show", "put"} }

\* the kind a command name stands for
KindOfName(w) ==
  CASE w = <<"e", "x", "i", "t">> -> CMD_EXIT
    [] w = <<"c", "d">> -> CMD_CD
    [] w = <<"r", "c", "d">> -> CMD_RCD
    [] w = <<"l", "s">> -> CMD_LS
    [] w = <<"r", "l", "s">> -> CMD_RLS
    [] w = <<"g", "e", "t">> -> CMD_GET
    [] w = <<"s", "h", "o", "w">> -> CMD_SHOW
    [] w = <<"p", "u", "t">> -> CMD_PUT
    [] OTHER -> CMD_INVALID

\* the first word of the line is exactly in.word
WordStands(in) == in.lead = <<>> /\ (in.ws # <<>> \/ in.text = <<>>)

\* C17: cmd_parse yields CMD_INVALID when the first word is exit, ls or rls
\* and text follows it, and when it is cd, rcd, get, show or put and nothing
\* or only white space follows it.
C17_ArgPresenceMismatch ==
  (Called("cmd_parse") /\ WordStands(call.arg)) =>
    /\ (call.arg.word \in NoArgNames /\ call.arg.text # <<>>)
         => call.ret.type = CMD_INVALID
    /\ (call.arg.word \in ArgNames /\ call.arg.text = <<>>)
         => call.ret.type = CMD_INVALID

\* "rls" followed by white space and text was parsed
C17_Witness ==
  /\ Called("cmd_parse") /\ WordStands(call.arg)
  /\ call.arg.word = <<"r", "l", "s">> /\ call.arg.ws = <<" ">>
  /\ call.arg.text = <<"a">>

\* "get" followed by white space only was parsed
C17_WitnessNoArg ==
  /\ Called("cmd_parse") /\ WordStands(call.arg)
  /\ call.arg.word = <<"g", "e", "t">> /\ call.arg.ws = <<" ", "\n">>
  /\ call.arg.text = <<>>

\* C18: a name that takes an argument, followed by white space and a text
\* that starts with a character that is no white space, parses to that
\* name's kind and to exactly that text; a line whose first word is no
\* command name (a prefix or an extension of one, another word, or white
\* space in front of it) parses to CMD_INVALID.
C18_ParseNameAndArgument ==
  Called("cmd_parse") =>
    /\ (/\ call.arg.lead = <<>> /\ call.arg.word \in ArgNames
        /\ call.arg.ws # <<>> /\ call.arg.text # <<>>)
       => call.ret = [type |-> KindOfName(call.arg.word), arg |-> call.arg.text]
    /\ (\/ call.arg.lead # <<>>
        \/ (WordStands(call.arg) /\ call.arg.word \notin NoArgNames \cup ArgNames))
       => call.ret.type = CMD_INVALID

\* "get", a tab and a blank, and a text with a blank inside were parsed
C18_Witness ==
  /\ Called("cmd_parse") /\ call.arg.lead = <<>>
  /\ call.arg.word = <<"g", "e", "t">> /\ call.arg.ws = <<"\t", " ">>
  /\ call.ret.arg = <<"a", " ", "b">>

\* an extension of a command name was parsed
C18_WitnessExtension ==
  /\ Called("cmd_parse") /\ WordStands(call.arg)
  /\ call.arg.word = <<"e", "x", "i", "t", "t">>

\* C19: read_line on a buffer of capacity N returns a count of at most N-1,
\* has written to no index beyond the buffer, and leaves a NUL at the index
\* equal to the count it returns, whatever the stream and whatever the
\* buffer held before.
C19_ReadLineTerminates ==
  Called("read_line") =>
    /\ call.ret <= Len(call.arg.old) - 1
    /\ call.st.top <= Len(call.arg.old)
    /\ call.st.buf[call.ret + 1] = "NUL"

\* read_line on a buffer that was all NUL before the call
C19_Zeroed ==
  (Called("read_line") /\ call.arg.old[1] = "NUL") =>
    call.st.buf[call.ret + 1] = "NUL"

\* C20: write_buf of a positive number of bytes to a destination that takes
\* only part of each write returns the requested count, and the destination
\* has received exactly the bytes of the buffer, in order.
C20_WriteBufComplete ==
  (Called("write_buf") /\ Len(call.arg.data) > 0) =>
    /\ call.ret = Len(call.arg.data)
    /\ call.st.dest = call.arg.data

\* a call that needed three writes, the first two of them short
C20_Witness ==
  /\ Called("write_buf") /\ Len(call.arg.data) = 3
  /\ call.st.n = 3

\* C21: send_file on a source that delivers the bytes F and then its end,
\* and a destination that takes part of each write, returns EXIT_SUCCESS
\* and the destination has received exactly F: for the empty F, for an F
\* of whole buffers, for an F that holds NUL and LF bytes.
C21_SendFileIdentical ==
  Called("send_file") =>
    /\ call.ret = EXIT_SUCCESS
    /\ call.st.dest = call.arg.data
    /\ call.st.rest = <<>>

\* a file of NUL and LF bytes that fills the buffer a whole number of times
\* was copied with short writes
C21_Witness ==
  /\ Called("send_file") /\ call.arg.size = 3
  /\ call.arg.data = <<"NUL", LF>> /\ call.st.n = 2

\* the empty file was copied
C21_WitnessEmpty ==
  Called("send_file") /\ call.arg.data = <<>>

\* path names a readable regular file of the client
ReadableReg(path) == path \in Names /\ cli.files[path].ex

\* the step is run_command on a line that parses to CMD_INVALID, or on a
\* put whose argument is no readable regular file
RunsUserError ==
  /\ cli.pc = "prompt" /\ cli'.ncmds = cli.ncmds + 1
  /\ \/ cli'.cmd.type = CMD_INVALID
     \/ cli'.cmd.type = CMD_PUT /\ ~ReadableReg(cli'.cmd.arg)

\* C22: a line that parses to CMD_INVALID, and a put whose argument is no
\* readable regular file, bring the client back to the prompt with a
\* failure status in one step that writes nothing on the control socket
\* (no D in particular), creates no socket and leaves both connections as
\* they were.
C22_UserErrorsNoNetwork ==
  [][RunsUserError =>
       /\ ctl' = ctl /\ dat' = dat
       /\ cli'.nsent = cli.nsent /\ cli'.nout = cli.nout
       /\ cli'.socks = cli.socks /\ ~cli'.wrote_d
       /\ cli'.pc = "prompt" /\ cli'.status = EXIT_FAILURE]_vars

\* a put of a file the client does not have was refused after an earlier
\* command had used the control connection
C22_Witness ==
  /\ cli.pc = "prompt" /\ cli.server_sock = CtlSock
  /\ cli.cmd = [type |-> CMD_PUT, arg |-> FileF]
  /\ cli.ncmds = 2 /\ cli.nsent > 0 /\ cli.status = EXIT_FAILURE

\* an unrecognized line was refused
C22_WitnessInvalid ==
  /\ cli.pc = "prompt" /\ cli.server_sock = CtlSock
  /\ cli.cmd.type = CMD_INVALID /\ cli.ncmds = 1

\* the step is the client evaluating the response line it read for exit
ReadsExitResponse ==
  cli.pc = "rsp" /\ cli.cmd.type = CMD_EXIT /\ cli'.pc # "rsp"

\* C23: for the user command exit the client terminates, with success, when
\* the response line it read is an ACK and only then; when the line is an
\* ERR, and when the read reports the end of the connection, it is back at
\* the prompt with a failure status.
C23_ExitOnlyOnAck ==
  [][ReadsExitResponse =>
       LET rsp == get_response(ClientMachine).buf
       IN /\ cli'.pc = "exited" =>
               /\ rsp # <<>> /\ rsp[1] = RSP_ACK
               /\ cli'.exit_status = EXIT_SUCCESS
          /\ (rsp # <<>> /\ rsp[1] = RSP_ACK) => cli'.pc = "exited"
          /\ (rsp = <<>> \/ rsp[1] = RSP_ERR) =>
               /\ cli'.pc = "prompt" /\ cli'.status = EXIT_FAILURE]_vars

\* C23 without the ERR case: an ACK ends the client with success, the end
\* of the connection brings it back to the prompt with a failure status
C23_ExitOnAckOrEof ==
  [][ReadsExitResponse =>
       LET rsp == get_response(ClientMachine).buf
       IN /\ (rsp # <<>> /\ rsp[1] = RSP_ACK) =>
               cli'.pc = "exited" /\ cli'.exit_status = EXIT_SUCCESS
          /\ rsp = <<>> =>
               cli'.pc = "prompt" /\ cli'.status = EXIT_FAILURE]_vars

\* client_run's connect_to has returned without a control connection
StartFailed == cli.pc # "start" /\ cli.server_sock # CtlSock

\* C24: when the control connection cannot be established at startup the
\* client has exited with a failure code, has run no command and has
\* written no command line to any descriptor.
C24_ExitsWhenConnectFails ==
  StartFailed =>
    /\ cli.pc = "exited" /\ cli.exit_status = EXIT_FAILURE
    /\ cli.ncmds = 0
    /\ cli.nsent = 0 /\ cli.nout = 0

\* without a control connection the client has written a command line to
\* standard output
C24_WroteToStdout == StartFailed /\ cli.nout > 0

\* C25: in the server parent, whenever no SIGCHLD is pending and
\* handle_sigchld is not running, every child that has exited has been
\* reaped: an exited child does not stay unreaped until some other child
\* exits.
C25_ExitedChildrenReaped ==
  (proc.sc = "parent" /\ ~proc.pending /\ ~proc.hnd) => Zombies(proc) = {}

\* the parent has reaped every child it forked
C25_AllReaped ==
  /\ proc.sc = "parent"
  /\ \A k \in DOMAIN proc.kids : proc.kids[k].st = "reaped"

\* the child k was forked and has exited with status 0
ExitedWell(k) ==
  proc.kids[k].st \in {"zombie", "reaped"} /\ proc.kids[k].code = EXIT_SUCCESS

\* C27: for RLS the server child responds ACK when the ls child it forked
\* has exited with status 0 and ERR otherwise, whether exec_to_fd's wait or
\* the inherited handle_sigchld reaps the ls child.
C27_RlsAckIffLsSucceeded ==
  (proc.sc = "rls" /\ proc.done) =>
    (proc.rsp = RSP_ACK <=> ExitedWell("ls"))

\* C27 when exec_to_fd's wait is the one that reaps the ls child
C27_WhenMainReaps ==
  (proc.sc = "rls" /\ proc.done /\ proc.kids["ls"].by # "handler") =>
    (proc.rsp = RSP_ACK <=> ExitedWell("ls"))

\* C28: in the client's local ls the status exec_to_fd stores is that of
\* the ls child it forked, never that of the pager child.
C28_StatusIsOfLsChild ==
  (proc.sc = "lls" /\ proc.status.of # "") => proc.status.of = "ls"

\* local_ls returned after the ls child had exited before the pager child
C28_LsFirst ==
  /\ proc.sc = "lls" /\ proc.done /\ proc.status.of = "ls"
  /\ proc.kids["pager"].by = "main"

\* C29: when page_fd has returned, it has returned failure if the
\* streaming child exited with a failed transfer or the pager child
\* failed, and it has returned success only if the streaming child was
\* forked and exited with success.
C29_PageFdReportsResult ==
  (proc.sc = "page" /\ proc.done) =>
    /\ (\/ proc.kids["send"].st # "unborn" /\ proc.kids["send"].code # EXIT_SUCCESS
        \/ proc.kids["more"].st # "unborn" /\ proc.kids["more"].code # EXIT_SUCCESS)
       => proc.ret = EXIT_FAILURE
    /\ proc.ret = EXIT_SUCCESS => ExitedWell("send")

\* page_fd returns success after both children exited with success
C29_SuccessWhenBothSucceed ==
  (/\ proc.sc = "page" /\ proc.done
   /\ ExitedWell("send") /\ ExitedWell("more")) => proc.ret = EXIT_SUCCESS

\* the child has processed a D that installed no data handle and is back
\* at the top of its loop
SrvFailedData == SrvDid({"D"}) /\ ~srv.last.accepted

\* C26: after a D for which listen_on, getsockname, the write of the port
\* ACK or accept failed, the data handle is absent and the child holds no
\* data connection; the last response it wrote for the D is the error
\* "Failed to create data socket", and it did write it whenever the peer
\* holds the control connection open.
C26_FailedDataLeavesReady ==
  SrvFailedData =>
    /\ srv.data_sock = NoSock /\ srv.open = {} /\ ~dat.srv_open
    /\ srv.ctl_open
    /\ ctl.cli_open =>
         /\ srv.last.rsp # <<>>
         /\ srv.last.rsp[Len(srv.last.rsp)] = <<RSP_ERR>> \o MSG_NO_SOCKET

\* accept failed after the port had been sent
C26_Witness ==
  /\ SrvFailedData /\ ctl.cli_open
  /\ Len(srv.last.rsp) = 2 /\ srv.last.rsp[1][1] = RSP_ACK

\* the listener could not be created
C26_WitnessListen ==
  /\ SrvFailedData /\ ctl.cli_open
  /\ srv.last.rsp = << <<RSP_ERR>> \o MSG_NO_SOCKET >> /\ srv.nlsn = 0

\* C30: the client holds at most one socket made for a data connection and
\* holds none while it is at the prompt, and as long as it runs it has
\* closed neither standard output nor the control socket.
C30_DataSocketClosed ==
  /\ cli.socks <= 1
  /\ cli.pc = "prompt" => (cli.socks = 0 /\ ~dat.cli_open)
  /\ cli.pc \notin {"start", "exited"} =>
       /\ cli.stdout_open
       /\ cli.server_sock = CtlSock => ctl.cli_open

\* back at the prompt the client still holds a socket it made for a data
\* connection
C30_SocketLeft == cli.pc = "prompt" /\ cli.socks > 0

\* the client has closed standard output
C30_StdoutClosed == cli.pc = "prompt" /\ ~cli.stdout_open

\* a data-bearing command whose data socket was connected has closed it
\* by the time the client is back at the prompt
C30_ClosedWhenConnected ==
  (cli.pc = "prompt" /\ cli.connected) => ~dat.cli_open

\* C39: cmd_parse never indexes info_table outside its nine entries: the
\* kind it has when it looks up has_arg is one of CMD_EXIT..CMD_DATA, for
\* every line, a line whose first word names no command included.
C39_IndexInTable ==
  Called("cmd_parse") => ParsedType(LineOf(call.arg)) \in DOMAIN info_table

\* when the line starts with a command name that ends its first word the
\* index is in the table
C39_NamedInTable ==
  (/\ Called("cmd_parse")
   /\ call.arg.lead = <<>> /\ call.arg.word \in ArgNames \cup NoArgNames
   /\ (call.arg.ws # <<>> \/ call.arg.text = <<>>))
    => ParsedType(LineOf(call.arg)) \in DOMAIN info_table

\* C34: whenever the server child handles a D command no data handle is
\* installed, so the child never aborts on the assertion of the CMD_DATA
\* case, whatever lines the client sends.
C34_DataPreconditionHolds == srv.pc # "aborted"

\* a D that arrives while no data handle is installed does not abort
C34_FirstDataHandled ==
  [][(SrvRead /\ srv.data_sock < 0) => srv'.pc # "aborted"]_vars

\* the port a response line advertises, -1 when it advertises none
AdvertisedPort(line) ==
  IF Len(line) > 1 /\ line[1] = RSP_ACK THEN ParsePort(Tail(line), 0) ELSE -1

\* the response line the child wrote in this step, <<>> when it wrote none
WrittenNow ==
  IF srv'.nrsp > srv.nrsp /\ srv'.last.rsp # <<>>
  THEN srv'.last.rsp[Len(srv'.last.rsp)] ELSE <<>>

\* C35: in the D handling the data listener is bound and listening by the
\* time the ACK carrying its port is written to the control connection,
\* and a listener is closed by the running child only when its accept has
\* returned a data connection; so the advertised port is listening when
\* the client connects to it.
C35_ListeningWhenAdvertised ==
  [][/\ AdvertisedPort(WrittenNow) # -1 =>
          /\ AdvertisedPort(WrittenNow) \in srv'.lsn
          /\ srv'.pc = "accept" /\ srv'.tmp = AdvertisedPort(WrittenNow)
     /\ (srv'.ctl_open /\ srv.lsn \ srv'.lsn # {}) =>
          /\ srv.pc = "accept" /\ srv'.last.accepted
          /\ srv.lsn \ srv'.lsn = {srv.tmp} /\ srv'.data_sock = srv.tmp]_vars

\* the peer has connected to the advertised port and waits to be accepted
C35_Witness ==
  /\ srv.pc = "accept" /\ dat.st = "pending" /\ dat.id = srv.tmp
  /\ srv.last.rsp = << <<RSP_ACK>> \o Dec(srv.tmp) >>
  /\ srv.tmp \in srv.lsn

\* the second listener of a child was accepted on and closed
C35_WitnessSecond ==
  /\ srv.last.accepted /\ srv.nlsn = 2 /\ srv.lsn = {}
  /\ srv.data_sock = FirstPort + 1

\* C33: when the server child has finished processing a command the only
\* descriptors it holds are the control socket and, if installed, the data
\* handle: no listener made for a D is left open, whether the handshake
\* succeeded or failed, and no file opened for PUT, GET or SHOW.
C33_OnlyControlAndData ==
  srv.pc = "read" =>
    /\ srv.lsn = {} /\ srv.files = {}
    /\ srv.open \subseteq {srv.data_sock}

\* a listener is left open after a handshake that failed
C33_ListenerLeft == srv.pc = "read" /\ SrvFailedData /\ srv.lsn # {}

\* the destination of a PUT is left open after the command
C33_DestinationLeft ==
  /\ srv.pc = "read" /\ SrvDid({"P"})
  /\ \E f \in srv.files : f.mode = "w"

\* the source of GET and SHOW is closed when the command ends, and so are
\* the data handle and the listener of a handshake that succeeded
C33_SourceAndHandleClosed ==
  srv.pc = "read" =>
    /\ \A f \in srv.files : f.mode # "r"
    /\ srv.open \subseteq {srv.data_sock}
    /\ (SrvDid({"D"}) /\ srv.last.accepted) => srv.tmp \notin srv.lsn

\* the bytes the line buffer keeps hold the code and the whole argument
CodecFits == 1 + Len(call.arg.cmd.arg) <= call.arg.size - 1

\* C32: for every command kind k that has a wire code and every argument
\* text a without LF whose line fits the line limit, the line send_command
\* writes for (k, a) is decoded by process_command to the kind
\* cmd_get_type(cmd_get_ctl(k)) and to an argument equal to a, the empty
\* text when no argument was sent; GET and SHOW decode to the same kind.
C32_CodecRoundTrip ==
  (Called("codec") /\ CodecFits) =>
    /\ call.ret.cmd.type = cmd_get_type(cmd_get_ctl(call.arg.cmd.type))
    /\ call.ret.cmd.arg = call.arg.cmd.arg
    /\ call.arg.cmd.type \in {CMD_GET, CMD_SHOW} => call.ret.cmd.type = CMD_GET
    /\ call.arg.cmd.type \notin {CMD_SHOW} => call.ret.cmd.type = call.arg.cmd.type

\* a SHOW whose argument holds a blank and a code letter and fills the
\* line buffer
C32_Witness ==
  /\ Called("codec") /\ CodecFits
  /\ call.arg.cmd = [type |-> CMD_SHOW, arg |-> <<" ", "G">>]
  /\ call.arg.size = 4 /\ call.ret.st = "full"

\* a command sent without an argument
C32_WitnessNoArg ==
  /\ Called("codec") /\ call.arg.cmd = [type |-> CMD_EXIT, arg |-> <<>>]
  /\ call.ret.st = "end" /\ call.ret.cmd.arg = <<>>

\* C37: the client's prompt loop ends when standard input reaches its end:
\* the turn of the loop that reads the end of standard input makes the
\* client exit, it does not prompt again.
C37_ExitsAtEndOfInput ==
  [][(cli.pc = "prompt" /\ cli'.eofs > cli.eofs) => cli'.pc = "exited"]_vars

\* the client has read the end of standard input more than once and is at
\* its prompt
C37_PromptsAgain == cli.pc = "prompt" /\ cli.eofs > 1

\* C31: a server child closes the listening socket it inherited from the
\* parent: no child that is serving a connection holds it open.
C31_ChildClosesListener ==
  \A k \in DOMAIN proc.kids :
    (proc.sc = "parent" /\ proc.kids[k].st = "run") =>
      "sock" \notin proc.kids[k].fds

\* a child that has ended holds no socket of the parent
C31_NoneAfterExit ==
  \A k \in DOMAIN proc.kids :
    proc.kids[k].st \in {"unborn", "zombie", "reaped"} => proc.kids[k].fds = {}

\* C36: a child forked inside exec_to_fd or page_fd never goes on in the
\* caller's code: it becomes the external program or exits, so the process
\* that called the function stays the only one that reads its commands.
C36_HelpersNeverReturn ==
  \A k \in DOMAIN proc.kids : proc.kids[k].st # "loop"

\* the child of the server child's exec_to_fd runs the server child's code
\* while the server child waits for it
C36_ReturnedIntoServer ==
  /\ proc.sc = "rls" /\ proc.pc = "wait" /\ proc.kids["ls"].st = "loop"

\* while a child that returned runs, the process that forked it has not
\* returned from the function
C36_CallerWaits ==
  (\E k \in DOMAIN proc.kids : proc.kids[k].st = "loop") => ~proc.done

\* C38: once the control port is bound the parent's accept loop does not
\* end: after each accepted connection the parent forks a child and is
\* back at accept, and no failure while it handles an accepted connection
\* makes it exit.
C38_ParentKeepsAccepting ==
  proc.sc = "parent" => proc.pc = "accept" /\ ~proc.done

\* a turn of the loop that forked a child leaves the parent at accept
C38_BackToAccept ==
  [][(proc.sc = "parent" /\ Running(proc') # Running(proc)
      /\ Running(proc) \subseteq Running(proc'))
       => proc'.pc = "accept"]_vars

====
